---- MODULE Spec2Model ----
(***************************************************************************)
(* ContextVault search and embedding back end.                             *)
(*                                                                         *)
(* Request machines over one state:                                        *)
(*   SpecRank      POST /search/hybrid and VectorSearchService.hybridSearch*)
(*   SpecSimilar   GET /search/similar/:entryId and findSimilarEntries     *)
(*   SpecVectors   EmbeddingService.findSimilarVectors called directly     *)
(*   SpecRepeat    the same search called twice over unchanged data        *)
(*   SpecCosine    EmbeddingService.calculateCosineSimilarity              *)
(*   SpecLifecycle POST/PUT /entries, POST /search/embeddings/generate and *)
(*                 generateEntryEmbeddings / generateBatchEmbeddings       *)
(*   SpecLifecycleFair  SpecLifecycle where a provider call always settles *)
(*   SpecLifecycleNoFailure  SpecLifecycle where no generation fails       *)
(*   SpecSearch    one request of the search or entries routes over a      *)
(*                 collection owned by two users                           *)
(*   SpecRequests  auth, POST /entries and DELETE /entries/:id of requests *)
(*                 in progress at once, step by step                       *)
(*   SpecChunk     EmbeddingService.chunkText                              *)
(*                                                                         *)
(* Numbers.  In the ranking machines JavaScript numbers are exact decimals:*)
(*   weights and JSON numbers   in units of 1/Unit      (0.3   = 3000)     *)
(*   text scores, similarities  in hundredths           (0.8   = 80)       *)
(*   combined scores            in units of 1/(100*Unit) (0.72 = 720000)   *)
(* and floating-point rounding is left out.  SpecCosine computes in IEEE   *)
(* 754 doubles [sign, m, e], rounding to nearest even at every operation.  *)
(***************************************************************************)
EXTENDS Integers, Sequences, FiniteSets, TLC

VARIABLES
    \* ---- POST /search/hybrid, hybridSearch
    hpc,            \* "idle" | "done"
    hcaller,        \* "none" | "route" | "service"
    hbody,          \* req.body of POST /hybrid: [textWeight, vectorWeight, limit]
    hopts,          \* options hybridSearch ran with: [called, limit, textWeight, vectorWeight, threshold]
    textMatches,    \* the user's $text matches, sorted by textScore descending
    simHits,        \* the user's entries with similarity >= 0.3 to the query, sorted descending
    providerFailed, \* generateEmbedding(query) threw
    combinedResults, \* hybridSearch's combinedResults, before filter, sort and slice
    hresp,          \* [status, code, searchType, results]
    totalSearches   \* req.user.stats.totalSearches

hvars == <<hpc, hcaller, hbody, hopts, textMatches, simHits, providerFailed, combinedResults,
          hresp, totalSearches>>

VARIABLES
    \* ---- the Entry collection
    entries,        \* [Ids -> [userId, vector]]: embeddings.vector is absent, null or an array
    \* ---- GET /search/similar/:entryId, findSimilarEntries, findSimilarVectors
    spc,            \* "idle" | "done"
    sreq,           \* [caller, userId, entryId, queryVector, candidates, limit, threshold]
    sscored,        \* ids handed to calculateCosineSimilarity, in order
    sresp           \* [status, code, results]

svars == <<spc, sreq, sscored, sresp>>

VARIABLES
    \* ---- POST/PUT /entries, POST /search/embeddings/generate
    docs,           \* [EntryIds -> [userId, raw, embeddingOf, dimension, checksum]]: the
                    \* documents these routes write; embeddingOf is the text embedded,
                    \* dimension the length of embeddings.vector
    inflight,       \* generateEntryEmbeddings calls awaiting embeddingService.generateEmbedding
    dispatched,     \* provider calls dispatched or reserved by a batch so far
    totalEntries,   \* [Users -> req.user.stats.totalEntries]
    lresp           \* last response: [status, code, totalEntries, successful, failed]

lvars == <<docs, inflight, dispatched, totalEntries, lresp>>

VARIABLES
    \* ---- EmbeddingService.calculateCosineSimilarity(a, b)
    cosPc,          \* "idle" | "sqrtA" | "sqrtB" | "rooted" | "divide" | "done"
    cosA,           \* the argument a
    cosB,           \* the argument b
    cosOut,         \* [err, sim, value, called]: the error thrown, or the number returned:
                    \* sim its exact value, value the double the arithmetic produces
    cosLocals,      \* [dotProduct, normA, normB, product]: the locals, as doubles
    cosDigits       \* [x, y, bit, q]: the root or quotient being computed

cvars == <<cosPc, cosA, cosB, cosOut, cosLocals, cosDigits>>

VARIABLES
    \* ---- a second call of hybridSearch or findSimilarVectors on the same arrays
    repeated        \* [called, of, err, results]: what the second call returned

rvars == <<repeated>>

VARIABLES
    \* ---- one request of the search and entries routes over the Entry collection
    qpc,            \* "idle" | "done"
    qreq,           \* [op, userId, entryId, query, matching, limit, threshold, provider]
    qresp           \* [status, code, searchType, results, read, written]: read and written
                    \* are the documents the handler's queries returned and changed

qvars == <<qpc, qreq, qresp>>

VARIABLES
    \* ---- requests in progress, from the auth middleware to the response
    sessions        \* [Slots -> [pc, op, token, found, userId, loaded, target, status,
                    \*            code]]: loaded is stats.totalEntries of req.user

avars == <<sessions>>

VARIABLES
    \* ---- EmbeddingService.chunkText(text, maxLength, overlap)
    chunkPc,        \* "idle" | "loop" | "done"
    chunkArgs,      \* [text, maxLength, overlap]
    start,          \* the local start
    chunks          \* the local chunks

kvars == <<chunkPc, chunkArgs, start, chunks>>

vars == <<hvars, entries, svars, lvars, cvars, rvars, qvars, avars, kvars>>

\* ------------------------------------------------------------------------
\* Bounds of the model
\* ------------------------------------------------------------------------
MaxHits == 2        \* longest list a store query returns
MaxLimit == 2       \* largest explicit limit besides the scenario's 10
MaxRequests == 1    \* requests served in one behaviour
MaxDim == 2         \* dimension of the embedding vectors
MaxCalls == 3       \* provider calls dispatched in one behaviour
MaxJobs == 1        \* batch generation requests running at once
MaxSessions == 2    \* requests in progress at once
MaxText == 6        \* longest text given to chunkText
MaxChunkLength == 5 \* largest maxLength given to chunkText
MaxChunks == 8      \* iterations of the loop of chunkText that are followed

Ids == {"E1", "E2", "E3"}
Users == {"u1", "u2"}
EntryOrder == <<"E1", "E2">>
EntryIds == {EntryOrder[i] : i \in 1..Len(EntryOrder)}
Contents == {"a", "b"}
TextScores == {30, 80}
SimScores == {60, 90}

Unit == 10 ^ 4

\* ------------------------------------------------------------------------
\* JavaScript values: undefined, number (possibly NaN), string of characters
\* ------------------------------------------------------------------------
Undefined == [t |-> "undefined", v |-> 0, s |-> <<>>]
JNaN == [t |-> "nan", v |-> 0, s |-> <<>>]
JNum(v) == [t |-> "number", v |-> v, s |-> <<>>]
JStr(s) == [t |-> "string", v |-> 0, s |-> s]

DigitChars == {"0", "1", "2", "3", "4", "5", "6", "7", "8", "9"}

DigitVal(c) ==
    CASE c = "0" -> 0 [] c = "1" -> 1 [] c = "2" -> 2 [] c = "3" -> 3 [] c = "4" -> 4
      [] c = "5" -> 5 [] c = "6" -> 6 [] c = "7" -> 7 [] c = "8" -> 8 [] c = "9" -> 9

DigitChar(d) ==
    CASE d = 0 -> "0" [] d = 1 -> "1" [] d = 2 -> "2" [] d = 3 -> "3" [] d = 4 -> "4"
      [] d = 5 -> "5" [] d = 6 -> "6" [] d = 7 -> "7" [] d = 8 -> "8" [] d = 9 -> "9"

RECURSIVE DigitsValue(_)
\* value of a sequence of digit characters read as a decimal integer
DigitsValue(s) ==
    IF s = <<>> THEN 0
    ELSE 10 * DigitsValue(SubSeq(s, 1, Len(s) - 1)) + DigitVal(s[Len(s)])

\* the fraction digits s as a number of 1/Unit (digits past the fourth are dropped)
FractionValue(s) ==
    LET d == IF Len(s) > 4 THEN SubSeq(s, 1, 4) ELSE s
    IN DigitsValue(d) * (10 ^ (4 - Len(d)))

DotPositions(s) == {i \in 1..Len(s) : s[i] = "."}

\* StrDecimalLiteral: digits, digits "." digits*, or "." digits+
IsDecimalLiteral(s) ==
    /\ \A i \in 1..Len(s) : s[i] \in DigitChars \cup {"."}
    /\ Cardinality(DotPositions(s)) <= 1
    /\ \E i \in 1..Len(s) : s[i] \in DigitChars

DecimalValue(s) ==
    IF DotPositions(s) = {} THEN DigitsValue(s) * Unit
    ELSE LET p == CHOOSE i \in DotPositions(s) : TRUE
         IN DigitsValue(SubSeq(s, 1, p - 1)) * Unit + FractionValue(SubSeq(s, p + 1, Len(s)))

\* Number(string): the whole string must be a numeric literal; "" is 0
StringToNumber(s) ==
    IF s = <<>> THEN JNum(0)
    ELSE IF IsDecimalLiteral(s) THEN JNum(DecimalValue(s))
    ELSE JNaN

RECURSIVE IntDigits(_)
IntDigits(n) == IF n < 10 THEN <<DigitChar(n)>> ELSE Append(IntDigits(n \div 10), DigitChar(n % 10))

RECURSIVE StripZeros(_)
StripZeros(s) ==
    IF s # <<>> /\ s[Len(s)] = "0" THEN StripZeros(SubSeq(s, 1, Len(s) - 1)) ELSE s

\* Number.prototype.toString of a non-negative number of 1/Unit
NumberToString(v) ==
    LET f == v % Unit
        fd == <<DigitChar(f \div 1000), DigitChar((f \div 100) % 10),
                DigitChar((f \div 10) % 10), DigitChar(f % 10)>>
    IN IF f = 0 THEN IntDigits(v \div Unit)
       ELSE IntDigits(v \div Unit) \o <<".">> \o StripZeros(fd)

JsToString(x) ==
    CASE x.t = "string" -> x.s
      [] x.t = "number" -> NumberToString(x.v)
      [] x.t = "nan" -> <<"N", "a", "N">>
      [] OTHER -> <<"u", "n", "d", "e", "f", "i", "n", "e", "d">>

ToNumber(x) ==
    CASE x.t = "string" -> StringToNumber(x.s)
      [] x.t = "number" -> x
      [] OTHER -> JNaN

\* a + b: concatenation as soon as one operand is a string
JsAdd(a, b) ==
    IF a.t = "string" \/ b.t = "string" THEN JStr(JsToString(a) \o JsToString(b))
    ELSE IF a.t = "number" /\ b.t = "number" THEN JNum(a.v + b.v)
    ELSE JNaN

\* a - n for a number n of 1/Unit
JsMinus(a, n) ==
    LET x == ToNumber(a) IN IF x.t = "number" THEN JNum(x.v - n) ELSE JNaN

MathAbs(x) == IF x.t = "number" THEN JNum(IF x.v < 0 THEN -x.v ELSE x.v) ELSE JNaN

\* x > n: false for NaN
JsGreater(x, n) == x.t = "number" /\ x.v > n

\* the longest prefix of s that is a decimal literal
FloatPrefix(s) ==
    LET ok == {n \in 0..Len(s) : n = 0 \/ IsDecimalLiteral(SubSeq(s, 1, n))}
        n == CHOOSE k \in ok : \A j \in ok : j <= k
    IN SubSeq(s, 1, n)

\* parseFloat(x): x is converted to a string, then its longest numeric prefix is read
parseFloat(x) ==
    LET p == FloatPrefix(JsToString(x))
    IN IF p = <<>> THEN JNaN ELSE JNum(DecimalValue(p))

\* ------------------------------------------------------------------------
\* Sequences
\* ------------------------------------------------------------------------
Min(a, b) == IF a <= b THEN a ELSE b

\* Array.prototype.slice(0, n)
Slice(s, n) == SubSeq(s, 1, Min(n, Len(s)))

SeqIds(s) == {s[i].id : i \in 1..Len(s)}

IndexOfId(s, id) == CHOOSE i \in 1..Len(s) : s[i].id = id

\* Array.prototype.filter(r => r.combinedScore >= threshold), threshold in hundredths
FilterCombined(s, threshold) == SelectSeq(s, LAMBDA r : r.combinedScore >= threshold * Unit)

\* position at which r goes into the descending list s: behind every element
\* that does not compare lower, which keeps equal elements in their order
InsertCombinedUnstable(s, r) ==
    LET n == Cardinality({i \in 1..Len(s) : s[i].combinedScore > r.combinedScore})
    IN SubSeq(s, 1, n) \o <<r>> \o SubSeq(s, n + 1, Len(s))

InsertCombined(s, r) ==
    LET n == Cardinality({i \in 1..Len(s) : s[i].combinedScore >= r.combinedScore})
    IN SubSeq(s, 1, n) \o <<r>> \o SubSeq(s, n + 1, Len(s))

RECURSIVE SortCombinedDesc(_)
\* Array.prototype.sort((a, b) => b.combinedScore - a.combinedScore): stable
SortCombinedDesc(s) ==
    IF s = <<>> THEN <<>>
    ELSE InsertCombined(SortCombinedDesc(SubSeq(s, 1, Len(s) - 1)), s[Len(s)])

\* ------------------------------------------------------------------------
\* VectorSearchService.combineSearchResults
\* ------------------------------------------------------------------------
\* resultMap.set(id, value): a Map keeps a key where it was first inserted
MapSet(m, r) ==
    IF r.id \in SeqIds(m) THEN [m EXCEPT ![IndexOfId(m, r.id)] = r] ELSE Append(m, r)

\* result.textScore || 0
OrZero(x) == IF x = 0 THEN 0 ELSE x

TextEntryNormalised(r, textWeight) ==
    [id |-> r.id, textScore |-> OrZero(r.textScore), similarity |-> 0,
     combinedScore |-> (OrZero(r.textScore) \div 10) * textWeight]

TextEntry(r, textWeight) ==
    [id |-> r.id, textScore |-> OrZero(r.textScore), similarity |-> 0,
     combinedScore |-> OrZero(r.textScore) * textWeight]

VectorEntryOverwrite(m, r, textWeight, vectorWeight) ==
    [id |-> r.id, textScore |-> 0, similarity |-> r.similarity,
     combinedScore |-> r.similarity * vectorWeight]

VectorEntry(m, r, textWeight, vectorWeight) ==
    IF r.id \in SeqIds(m)
    THEN LET existing == m[IndexOfId(m, r.id)]
         IN [existing EXCEPT !.similarity = r.similarity,
                             !.combinedScore = (existing.textScore * textWeight)
                                               + (r.similarity * vectorWeight)]
    ELSE [id |-> r.id, textScore |-> 0, similarity |-> r.similarity,
          combinedScore |-> r.similarity * vectorWeight]

RECURSIVE AddTextResults(_, _, _)
AddTextResults(m, textResults, textWeight) ==
    IF textResults = <<>> THEN m
    ELSE AddTextResults(MapSet(m, TextEntry(Head(textResults), textWeight)),
                        Tail(textResults), textWeight)

RECURSIVE AddVectorResults(_, _, _, _)
AddVectorResults(m, vectorResults, textWeight, vectorWeight) ==
    IF vectorResults = <<>> THEN m
    ELSE AddVectorResults(MapSet(m, VectorEntry(m, Head(vectorResults), textWeight, vectorWeight)),
                          Tail(vectorResults), textWeight, vectorWeight)

combineSearchResultsTextOnly(textResults, vectorResults, textWeight, vectorWeight) ==
    AddTextResults(<<>>, textResults, textWeight)

combineSearchResults(textResults, vectorResults, textWeight, vectorWeight) ==
    AddVectorResults(AddTextResults(<<>>, textResults, textWeight),
                     vectorResults, textWeight, vectorWeight)

\* ------------------------------------------------------------------------
\* VectorSearchService.hybridSearch
\* ------------------------------------------------------------------------
\* the filter, sort and slice applied to the combined results
finalResultsSliceFirst(combined, threshold, limit) ==
    SortCombinedDesc(FilterCombined(Slice(combined, limit), threshold))

\* without the slice
finalResultsUncut(combined, threshold, limit) ==
    SortCombinedDesc(FilterCombined(combined, threshold))

finalResults(combined, threshold, limit) ==
    Slice(SortCombinedDesc(FilterCombined(combined, threshold)), limit)


\* Entry.find({$text}).sort({score}).limit(limit): the first limit matches
textSearch(matches, limit) == Slice(matches, limit)

\* vectorSearch's findSimilarVectors(...).slice(0, limit) over the hits at or above its threshold
vectorSearch(hits, limit) == Slice(hits, limit)

\* an argument array emptied by the call, as a loop over shift() leaves it
ArrayDrained(list) == <<>>

\* an argument array after the call: forEach, map and filter read it, the
\* spread copies its elements, and sort orders the array filter returned
ArrayAfterRead(list) == list

\* hybridSearch: both searches run with limit * 2 and their results are combined
hybridCombined(matches, hits, opts) ==
    combineSearchResults(textSearch(matches, opts.limit * 2),
                         vectorSearch(hits, opts.limit * 2),
                         opts.textWeight, opts.vectorWeight)

\* hybridSearch: combine, then filter, sort and slice
hybridSearch(matches, hits, opts) ==
    finalResults(hybridCombined(matches, hits, opts), opts.threshold, opts.limit)

\* ------------------------------------------------------------------------
\* Inputs of the hybrid search: what the store and vectorSearch can return
\* ------------------------------------------------------------------------
IdSeqs ==
    {s \in UNION {[1..n -> Ids] : n \in 0..MaxHits} :
        \A i, j \in 1..Len(s) : i # j => s[i] # s[j]}

NonIncreasing(f) == \A i \in 1..(Len(f) - 1) : f[i] >= f[i + 1]

ScoreSeqs(n, scores) == {f \in [1..n -> scores] : NonIncreasing(f)}

\* $text matches of the query, as the store sorts them
TextLists ==
    UNION {{[i \in 1..Len(ids) |-> [id |-> ids[i], textScore |-> sc[i]]] :
               sc \in ScoreSeqs(Len(ids), TextScores)} : ids \in IdSeqs}

\* the entries findSimilarVectors keeps for the query, as it sorts them
SimLists ==
    UNION {{[i \in 1..Len(ids) |-> [id |-> ids[i], similarity |-> sc[i]]] :
               sc \in ScoreSeqs(Len(ids), SimScores)} : ids \in IdSeqs}

NoOpts == [called |-> FALSE, limit |-> 0, textWeight |-> 0, vectorWeight |-> 0, threshold |-> 0]
NoBody == [textWeight |-> Undefined, vectorWeight |-> Undefined, limit |-> Undefined]
NoResp == [status |-> 0, code |-> "none", searchType |-> "none", results |-> <<>>]

\* options a caller of hybridSearch passes
ServiceOptions ==
    {[called |-> TRUE, limit |-> l, textWeight |-> w[1], vectorWeight |-> w[2], threshold |-> t] :
        l \in (1..MaxLimit) \cup {10},
        w \in {<<3000, 7000>>, <<7500, 2500>>},
        t \in {20, 30, 50}}

\* JSON values of textWeight and vectorWeight in a request body
WeightValues ==
    {Undefined, JNum(3000), JNum(7000), JNum(4000), JNum(12000),
     JStr(<<"0", ".", "4">>), JStr(<<"1">>), JStr(<<"0">>)}

LimitValues == {Undefined} \cup {JNum(n * Unit) : n \in 1..MaxLimit}

Bodies == [textWeight : WeightValues, vectorWeight : WeightValues, limit : LimitValues]

\* ------------------------------------------------------------------------
\* POST /search/hybrid
\* ------------------------------------------------------------------------
\* the longest prefix of s made of digits
IntPrefix(s) ==
    LET ok == {n \in 0..Len(s) : \A i \in 1..n : s[i] \in DigitChars}
        n == CHOOSE k \in ok : \A j \in ok : j <= k
    IN SubSeq(s, 1, n)

\* parseInt(x) of a non-negative value
parseInt(x) == DigitsValue(IntPrefix(JsToString(x)))

\* body(field).optional().isFloat({min: 0, max: 1})
isFloat01(x) ==
    x # Undefined =>
        /\ IsDecimalLiteral(JsToString(x))
        /\ parseFloat(x).v >= 0
        /\ parseFloat(x).v <= Unit

bodyValid(body) == isFloat01(body.textWeight) /\ isFloat01(body.vectorWeight)

\* const { textWeight = 0.3, vectorWeight = 0.7, limit = 20 } = req.body
bodyTextWeight(body) == IF body.textWeight = Undefined THEN JNum(3000) ELSE body.textWeight
bodyVectorWeight(body) == IF body.vectorWeight = Undefined THEN JNum(7000) ELSE body.vectorWeight
bodyLimit(body) == IF body.limit = Undefined THEN JNum(20 * Unit) ELSE body.limit

\* Math.abs(textWeight + vectorWeight - 1) > 0.001
weightsRejected(body) ==
    JsGreater(MathAbs(JsMinus(JsAdd(bodyTextWeight(body), bodyVectorWeight(body)), Unit)), 10)

\* the options the route passes to hybridSearch
routeOptions(body) ==
    [called |-> TRUE,
     limit |-> parseInt(bodyLimit(body)),
     textWeight |-> parseFloat(bodyTextWeight(body)).v,
     vectorWeight |-> parseFloat(bodyVectorWeight(body)).v,
     threshold |-> 30]

\* the catch block: Entry.find({$text}).limit(limit), scored by the text weight alone
textFallback(matches, body) ==
    LET rows == Slice(matches, parseInt(bodyLimit(body)))
    IN [i \in 1..Len(rows) |->
            [id |-> rows[i].id, textScore |-> rows[i].textScore, similarity |-> 0,
             combinedScore |-> rows[i].textScore * ToNumber(bodyTextWeight(body)).v]]

PostHybridInvalid(body) ==
    /\ ~bodyValid(body)
    /\ hresp' = [NoResp EXCEPT !.status = 400, !.code = "VALIDATION_ERROR"]
    /\ hopts' = NoOpts
    /\ textMatches' = <<>> /\ simHits' = <<>> /\ providerFailed' = FALSE
    /\ combinedResults' = <<>>
    /\ UNCHANGED totalSearches

PostHybridWeights(body) ==
    /\ bodyValid(body)
    /\ weightsRejected(body)
    /\ hresp' = [NoResp EXCEPT !.status = 400, !.code = "INVALID_WEIGHTS"]
    /\ hopts' = NoOpts
    /\ textMatches' = <<>> /\ simHits' = <<>> /\ providerFailed' = FALSE
    /\ combinedResults' = <<>>
    /\ UNCHANGED totalSearches

PostHybridSearch(body) ==
    /\ bodyValid(body)
    /\ ~weightsRejected(body)
    /\ \E matches \in TextLists, hits \in SimLists, failed \in BOOLEAN :
        /\ textMatches' = ArrayAfterRead(matches)
        /\ simHits' = IF failed THEN <<>> ELSE ArrayAfterRead(hits)
        /\ providerFailed' = failed
        /\ hopts' = routeOptions(body)
        /\ combinedResults' = IF failed THEN <<>>
                              ELSE hybridCombined(matches, hits, routeOptions(body))
        /\ hresp' = IF failed
                    THEN [status |-> 200, code |-> "OK", searchType |-> "text_fallback",
                          results |-> textFallback(matches, body)]
                    ELSE [status |-> 200, code |-> "OK", searchType |-> "hybrid",
                          results |-> hybridSearch(matches, hits, routeOptions(body))]
    /\ totalSearches' = totalSearches + 1

PostHybrid ==
    /\ hpc = "idle"
    /\ totalSearches < MaxRequests
    /\ \E body \in Bodies :
        /\ hbody' = body
        /\ \/ PostHybridInvalid(body)
           \/ PostHybridWeights(body)
           \/ PostHybridSearch(body)
    /\ hpc' = "done"
    /\ hcaller' = "route"
    /\ UNCHANGED <<entries, svars, lvars, cvars, rvars, qvars, avars, kvars>>

\* hybridSearch called with options of the caller's choice
HybridSearchCall ==
    /\ hpc = "idle"
    /\ \E opts \in ServiceOptions, matches \in TextLists, hits \in SimLists, failed \in BOOLEAN :
        /\ hopts' = opts
        /\ combinedResults' = IF failed THEN <<>> ELSE hybridCombined(matches, hits, opts)
        /\ textMatches' = ArrayAfterRead(matches)
        /\ simHits' = IF failed THEN <<>> ELSE ArrayAfterRead(hits)
        /\ providerFailed' = failed
        /\ hresp' = IF failed
                    THEN [NoResp EXCEPT !.status = 500, !.code = "THROWN"]
                    ELSE [status |-> 200, code |-> "OK", searchType |-> "hybrid",
                          results |-> hybridSearch(matches, hits, opts)]
    /\ hbody' = NoBody
    /\ hpc' = "done"
    /\ hcaller' = "service"
    /\ UNCHANGED <<totalSearches, entries, svars, lvars, cvars, rvars, qvars, avars, kvars>>

\* the response is sent and the server takes the next request
HybridDone ==
    /\ hpc = "done"
    /\ hpc' = "idle"
    /\ hcaller' = "none"
    /\ hbody' = NoBody
    /\ hopts' = NoOpts
    /\ textMatches' = <<>> /\ simHits' = <<>> /\ providerFailed' = FALSE
    /\ combinedResults' = <<>>
    /\ hresp' = NoResp
    /\ UNCHANGED <<totalSearches, entries, svars, lvars, cvars, rvars, qvars, avars, kvars>>

\* no entry created, no embedding requested
NoDoc == [userId |-> "none", raw |-> "", embeddingOf |-> "", dimension |-> 0, checksum |-> <<>>]
NoEntryResp == [status |-> 0, code |-> "none", totalEntries |-> 0, successful |-> 0, failed |-> 0]

InitEntries ==
    /\ docs = [id \in EntryIds |-> NoDoc]
    /\ inflight = <<>>
    /\ dispatched = 0
    /\ totalEntries = [u \in Users |-> 0]
    /\ lresp = NoEntryResp

\* calculateCosineSimilarity not called
NoCosine ==
    [err |-> "none", sim |-> [num |-> 0, den2 |-> 1],
     value |-> [sign |-> 0, m |-> <<>>, e |-> 0], called |-> FALSE]

\* the locals of calculateCosineSimilarity before the call
NoLocals ==
    [dotProduct |-> [sign |-> 0, m |-> <<>>, e |-> 0], normA |-> [sign |-> 0, m |-> <<>>, e |-> 0],
     normB |-> [sign |-> 0, m |-> <<>>, e |-> 0], product |-> [sign |-> 0, m |-> <<>>, e |-> 0]]

\* no second call made
NoRepeat == [called |-> FALSE, of |-> "none", err |-> "none", results |-> <<>>]

InitNoCosine ==
    /\ repeated = NoRepeat
    /\ cosPc = "idle"
    /\ cosA = <<>>
    /\ cosB = <<>>
    /\ cosOut = NoCosine
    /\ cosLocals = NoLocals
    /\ cosDigits = [x |-> <<>>, y |-> <<>>, bit |-> -1, q |-> <<>>]

\* no request received by the search and entries routes
NoQReq ==
    [op |-> "none", userId |-> "none", entryId |-> "none", query |-> "", matching |-> {},
     limit |-> 0, threshold |-> 0, provider |-> "none"]
NoQResp ==
    [status |-> 0, code |-> "none", searchType |-> "none", results |-> <<>>, read |-> {},
     written |-> {}]

\* a slot without a request
Slots == 1..MaxSessions
NoSession ==
    [pc |-> "free", op |-> "none", token |-> "none", found |-> "none", userId |-> "none",
     loaded |-> 0, target |-> "none", status |-> 0, code |-> "none"]

\* chunkText not called
NoChunkArgs == [text |-> <<>>, maxLength |-> 0, overlap |-> 0]

InitNoRequest ==
    /\ qpc = "idle"
    /\ qreq = NoQReq
    /\ qresp = NoQResp
    /\ sessions = [s \in Slots |-> NoSession]
    /\ chunkPc = "idle"
    /\ chunkArgs = NoChunkArgs
    /\ start = 0
    /\ chunks = <<>>

InitRank ==
    /\ InitEntries
    /\ InitNoRequest
    /\ hpc = "idle"
    /\ hcaller = "none"
    /\ hbody = NoBody
    /\ hopts = NoOpts
    /\ textMatches = <<>>
    /\ simHits = <<>>
    /\ providerFailed = FALSE
    /\ combinedResults = <<>>
    /\ hresp = NoResp
    /\ totalSearches = 0

NextRank == PostHybrid \/ HybridSearchCall \/ HybridDone

\* ------------------------------------------------------------------------
\* EmbeddingService.calculateCosineSimilarity
\* ------------------------------------------------------------------------
\* embeddings.vector of a document: no such field, null, or an array
NoField == [kind |-> "nofield", v |-> <<>>]
Null == [kind |-> "null", v |-> <<>>]
Arr(v) == [kind |-> "array", v |-> v]

FullVectors == [1..MaxDim -> {0, 1}]
\* a vector of another dimension, as another model produces it
ShortVector == [i \in 1..(MaxDim - 1) |-> 1]
Vectors == FullVectors \cup {ShortVector, <<>>}
VectorStates == {NoField, Null} \cup {Arr(v) : v \in Vectors}

RECURSIVE Dot(_, _)
Dot(a, b) == IF a = <<>> THEN 0 ELSE a[1] * b[1] + Dot(Tail(a), Tail(b))

\* A similarity is the number num / sqrt(den2), kept exact.
ZeroSim == [num |-> 0, den2 |-> 1]

\* sign(x) * x * x, which orders like x
SignedSquare(x) == IF x < 0 THEN -(x * x) ELSE x * x

\* x >= y for two similarities
SimGeq(x, y) == SignedSquare(x.num) * y.den2 >= SignedSquare(y.num) * x.den2

\* x >= threshold, the threshold in hundredths
SimAtLeast(x, threshold) == SignedSquare(100 * x.num) >= SignedSquare(threshold) * x.den2

\* the length check as a.length > b.length: a shorter a is accepted and the
\* loop runs over its indices
calculateCosineSimilarityOneSided(a, b) ==
    IF a.kind # "array" \/ b.kind # "array" THEN [err |-> "type", sim |-> ZeroSim]
    ELSE IF Len(a.v) > Len(b.v) THEN [err |-> "dimension", sim |-> ZeroSim]
    ELSE [err |-> "none", sim |-> [num |-> Dot(a.v, b.v), den2 |-> 1]]

\* without the zero-norm return: 0 / 0
calculateCosineSimilarityDividing(a, b) ==
    IF a.kind # "array" \/ b.kind # "array" THEN [err |-> "type", sim |-> ZeroSim]
    ELSE IF Len(a.v) # Len(b.v) THEN [err |-> "dimension", sim |-> ZeroSim]
    ELSE [err |-> "none", sim |-> [num |-> Dot(a.v, b.v), den2 |-> Dot(a.v, a.v) * Dot(b.v, b.v)]]

\* [err, sim]: err is "type" when a vector is no array (reading .length throws),
\* "dimension" when the lengths differ, "none" otherwise
calculateCosineSimilarity(a, b) ==
    IF a.kind # "array" \/ b.kind # "array" THEN [err |-> "type", sim |-> ZeroSim]
    ELSE IF Len(a.v) # Len(b.v) THEN [err |-> "dimension", sim |-> ZeroSim]
    ELSE LET dotProduct == Dot(a.v, b.v)
             normA2 == Dot(a.v, a.v)
             normB2 == Dot(b.v, b.v)
         IN IF normA2 = 0 \/ normB2 = 0 THEN [err |-> "none", sim |-> ZeroSim]
            ELSE [err |-> "none", sim |-> [num |-> dotProduct, den2 |-> normA2 * normB2]]

\* ------------------------------------------------------------------------
\* EmbeddingService.findSimilarVectors
\* ------------------------------------------------------------------------
\* candidateVectors.map(...): index of the first candidate whose similarity
\* throws, or 0
FirstThrow(queryVector, candidates) ==
    LET bad == {i \in 1..Len(candidates) :
                   calculateCosineSimilarity(queryVector, candidates[i].vector).err # "none"}
    IN IF bad = {} THEN 0 ELSE CHOOSE i \in bad : \A j \in bad : i <= j

mapSimilarities(queryVector, candidates) ==
    [i \in 1..Len(candidates) |->
        [id |-> candidates[i].id,
         similarity |-> calculateCosineSimilarity(queryVector, candidates[i].vector).sim]]

\* .filter(result => result.similarity >= threshold)
FilterSimilar(s, threshold) == SelectSeq(s, LAMBDA r : SimAtLeast(r.similarity, threshold))

InsertSimilar(s, r) ==
    LET n == Cardinality({i \in 1..Len(s) : SimGeq(s[i].similarity, r.similarity)})
    IN SubSeq(s, 1, n) \o <<r>> \o SubSeq(s, n + 1, Len(s))

RECURSIVE SortSimilarDesc(_)
\* .sort((a, b) => b.similarity - a.similarity): stable
SortSimilarDesc(s) ==
    IF s = <<>> THEN <<>>
    ELSE InsertSimilar(SortSimilarDesc(SubSeq(s, 1, Len(s) - 1)), s[Len(s)])

rankSimilaritiesNoFilter(scored, limit, threshold) ==
    Slice(SortSimilarDesc(scored), limit)

\* the filter, sort and slice of findSimilarVectors
rankSimilarities(scored, limit, threshold) ==
    Slice(SortSimilarDesc(FilterSimilar(scored, threshold)), limit)

\* [err, scored, results]: scored lists the ids whose similarity was asked for
findSimilarVectors(queryVector, candidates, limit, threshold) ==
    LET t == FirstThrow(queryVector, candidates)
    IN IF t # 0
       THEN [err |-> calculateCosineSimilarity(queryVector, candidates[t].vector).err,
             scored |-> [i \in 1..t |-> candidates[i].id],
             results |-> <<>>]
       ELSE [err |-> "none",
             scored |-> [i \in 1..Len(candidates) |-> candidates[i].id],
             results |-> rankSimilarities(mapSimilarities(queryVector, candidates),
                                          limit, threshold)]

\* ------------------------------------------------------------------------
\* VectorSearchService.findSimilarEntries and GET /search/similar/:entryId
\* ------------------------------------------------------------------------
IdOrder == <<"E1", "E2", "E3">>

\* Entry.find(...): the matching documents in the order of the collection
FindEntries(matching) ==
    LET hit == SelectSeq(IdOrder, LAMBDA id : id \in matching)
    IN [i \in 1..Len(hit) |-> [id |-> hit[i], vector |-> entries[hit[i]].vector]]

\* Entry.findOne({_id: entryId, userId, 'embeddings.vector': {$exists: true}})
referenceFound(entryId, userId) ==
    /\ entryId \in Ids
    /\ entries[entryId].userId = userId
    /\ entries[entryId].vector.kind # "nofield"

\* !referenceEntry || !referenceEntry.embeddings.vector: an array, even an
\* empty one, is truthy
referenceMissing(entryId, userId) ==
    \/ ~referenceFound(entryId, userId)
    \/ entries[entryId].vector.kind = "null"

\* the same query without _id: {$ne: entryId}
otherEntriesWithReference(entryId, userId) ==
    FindEntries({id \in Ids : /\ entries[id].userId = userId
                               /\ entries[id].vector.kind = "array"})

\* Entry.find({userId, _id: {$ne: entryId}, 'embeddings.vector': {$exists: true, $ne: null}})
otherEntries(entryId, userId) ==
    FindEntries({id \in Ids : /\ entries[id].userId = userId
                               /\ id # entryId
                               /\ entries[id].vector.kind = "array"})

\* [err, scored, results] of findSimilarEntries
findSimilarEntries(entryId, userId, limit, threshold) ==
    IF referenceMissing(entryId, userId)
    THEN [err |-> "not found", scored |-> <<>>, results |-> <<>>]
    ELSE findSimilarVectors(entries[entryId].vector, otherEntries(entryId, userId),
                            limit, threshold)

\* the route's translation of the outcome
similarResponse(out) ==
    IF out.err = "none" THEN [status |-> 200, code |-> "OK", results |-> out.results]
    ELSE IF out.err = "not found"
    THEN [status |-> 404, code |-> "ENTRY_NOT_FOUND", results |-> <<>>]
    ELSE [status |-> 500, code |-> "SIMILARITY_SEARCH_FAILED", results |-> <<>>]

NoSimReq ==
    [caller |-> "none", userId |-> "none", entryId |-> "none", queryVector |-> NoField,
     candidates |-> <<>>, limit |-> 0, threshold |-> 0]
NoSimResp == [status |-> 0, code |-> "none", results |-> <<>>]

SimThresholds == {0, 70}

\* GET /search/similar/:entryId
GetSimilar ==
    /\ spc = "idle"
    /\ \E userId \in Users, entryId \in Ids \cup {"E9"}, limit \in 1..MaxLimit,
          threshold \in SimThresholds :
        LET out == findSimilarEntries(entryId, userId, limit, threshold)
        IN /\ sreq' = [caller |-> "route", userId |-> userId, entryId |-> entryId,
                       queryVector |-> IF referenceMissing(entryId, userId) THEN NoField
                                       ELSE entries[entryId].vector,
                       candidates |-> IF referenceMissing(entryId, userId) THEN <<>>
                                      ELSE otherEntries(entryId, userId),
                       limit |-> limit, threshold |-> threshold]
           /\ sscored' = out.scored
           /\ sresp' = similarResponse(out)
    /\ spc' = "done"
    /\ UNCHANGED <<entries, hvars, lvars, cvars, rvars, qvars, avars, kvars>>

\* candidate lists a caller of findSimilarVectors passes: ids in collection order
CandidateLists ==
    UNION {{[i \in 1..n |-> [id |-> IdOrder[i], vector |-> vs[i]]] :
               vs \in [1..n -> VectorStates]} : n \in 0..Len(IdOrder)}

\* findSimilarVectors called with a query vector and candidates of the caller's choice
FindSimilarVectorsCall ==
    /\ spc = "idle"
    /\ \E q \in FullVectors, candidates \in CandidateLists, limit \in 1..MaxLimit,
          threshold \in SimThresholds :
        LET out == findSimilarVectors(Arr(q), candidates, limit, threshold)
        IN /\ sreq' = [caller |-> "service", userId |-> "none", entryId |-> "none",
                       queryVector |-> Arr(q), candidates |-> ArrayAfterRead(candidates),
                       limit |-> limit, threshold |-> threshold]
           /\ sscored' = out.scored
           /\ sresp' = IF out.err = "none"
                       THEN [status |-> 200, code |-> "OK", results |-> out.results]
                       ELSE [status |-> 500, code |-> "THROWN", results |-> <<>>]
    /\ spc' = "done"
    /\ UNCHANGED <<entries, hvars, lvars, cvars, rvars, qvars, avars, kvars>>

\* E1 and E2 are u1's; E3 is u1's or u2's
Owners == {[id \in Ids |-> IF id = "E3" THEN u ELSE "u1"] : u \in Users}

Collections ==
    {[id \in Ids |-> [userId |-> o[id], vector |-> vs[id]]] :
        o \in Owners, vs \in [Ids -> VectorStates]}

InitSimilar ==
    /\ InitRank
    /\ InitNoCosine
    /\ entries \in Collections
    /\ spc = "idle"
    /\ sreq = NoSimReq
    /\ sscored = <<>>
    /\ sresp = NoSimResp

\* the collection as the hybrid search leaves it: untouched
NoEntries == [id \in Ids |-> [userId |-> "u1", vector |-> Arr(<<>>)]]

InitRankOnly ==
    /\ InitRank
    /\ InitNoCosine
    /\ entries = NoEntries
    /\ spc = "idle"
    /\ sreq = NoSimReq
    /\ sscored = <<>>
    /\ sresp = NoSimResp

SpecRank == InitRankOnly /\ [][NextRank]_vars

NextSimilar == GetSimilar

SpecSimilar == InitSimilar /\ [][NextSimilar]_vars

InitVectors ==
    /\ InitRank
    /\ InitNoCosine
    /\ entries = NoEntries
    /\ spc = "idle"
    /\ sreq = NoSimReq
    /\ sscored = <<>>
    /\ sresp = NoSimResp

NextVectors == FindSimilarVectorsCall

SpecVectors == InitVectors /\ [][NextVectors]_vars

\* ------------------------------------------------------------------------
\* hybridSearch and findSimilarVectors called a second time with the arrays
\* and options of the first call
\* ------------------------------------------------------------------------
HybridSearchRepeat ==
    /\ hpc = "done"
    /\ hcaller = "service"
    /\ ~providerFailed
    /\ ~repeated.called
    /\ repeated' = [called |-> TRUE, of |-> "hybrid", err |-> "none",
                    results |-> hybridSearch(textMatches, simHits, hopts)]
    /\ UNCHANGED <<hvars, entries, svars, lvars, cvars, qvars, avars, kvars>>

FindSimilarVectorsRepeat ==
    /\ spc = "done"
    /\ sreq.caller = "service"
    /\ ~repeated.called
    /\ LET out == findSimilarVectors(sreq.queryVector, sreq.candidates, sreq.limit,
                                     sreq.threshold)
       IN repeated' = [called |-> TRUE, of |-> "similar", err |-> out.err,
                       results |-> out.results]
    /\ UNCHANGED <<hvars, entries, svars, lvars, cvars, qvars, avars, kvars>>

\* one function is called, then called again
HybridSearchFirst ==
    /\ spc = "idle"
    /\ HybridSearchCall

FindSimilarVectorsFirst ==
    /\ hpc = "idle"
    /\ FindSimilarVectorsCall

NextRepeat ==
    \/ HybridSearchFirst
    \/ HybridSearchRepeat
    \/ FindSimilarVectorsFirst
    \/ FindSimilarVectorsRepeat

SpecRepeat == InitVectors /\ [][NextRepeat]_vars

\* ------------------------------------------------------------------------
\* The search and entries routes over the Entry collection: GET /search/text,
\* POST /search/vector, POST /search/hybrid, VectorSearchService.vectorSearch,
\* GET, PUT and DELETE /entries/:id and GET /entries/:id/stats
\* ------------------------------------------------------------------------
\* a JavaScript value passed as query or as userId: a string or an ObjectId
QueryText(s) == [t |-> "string", s |-> s]
ObjectId(u) == [t |-> "object", s |-> u]

\* req.body.query: a word, or the hexadecimal digits of a user's id
Queries == {"x", "u2"}

\* the provider's embedding of a text
QueryVectorOf(s) == [i \in 1..MaxDim |-> IF s = "x" /\ i > 1 THEN 0 ELSE 1]

\* generateEmbedding without the check of its argument
generateEmbeddingAnyText(text, provider) ==
    IF provider = "down"
    THEN [err |-> "Embedding generation failed", vector |-> <<>>]
    ELSE [err |-> "none", vector |-> QueryVectorOf(text.s)]

\* EmbeddingService.generateEmbedding: [err, vector]
generateEmbedding(text, provider) ==
    IF text.t # "string" \/ text.s = ""
    THEN [err |-> "Text must be a non-empty string", vector |-> <<>>]
    ELSE IF provider = "down"
    THEN [err |-> "Embedding generation failed", vector |-> <<>>]
    ELSE [err |-> "none", vector |-> QueryVectorOf(text.s)]

\* the cast of the userId condition of a query to the ObjectId of the schema
castUserId(value) ==
    IF value.t = "object" THEN value.s
    ELSE IF value.s \in Users THEN value.s
    ELSE "CastError"

\* the documents a request touched, with their owners at that moment
Touched(ids) == {[id |-> id, userId |-> entries[id].userId] : id \in ids}

\* vectorSearch(query, userId, options): [err, searchType, read, results]
vectorSearchQuery(query, userId, limit, threshold, provider) ==
    LET embedding == generateEmbedding(query, provider)
        scope == castUserId(userId)
        found == FindEntries({id \in Ids : /\ entries[id].userId = scope
                                           /\ entries[id].vector.kind = "array"})
        out == findSimilarVectors(Arr(embedding.vector), found, limit, threshold)
    IN IF embedding.err # "none"
       THEN [err |-> embedding.err, searchType |-> "none", read |-> {}, results |-> <<>>]
       ELSE IF scope = "CastError"
       THEN [err |-> "CastError", searchType |-> "none", read |-> {}, results |-> <<>>]
       ELSE IF found = <<>>
       THEN [err |-> "none", searchType |-> "none", read |-> {}, results |-> <<>>]
       ELSE IF out.err # "none"
       THEN [err |-> out.err, searchType |-> "none", read |-> Touched(SeqIds(found)),
             results |-> <<>>]
       ELSE [err |-> "none", searchType |-> "vector", read |-> Touched(SeqIds(found)),
             results |-> out.results]

\* the text index: the score of a matching document, and the order by score
TextScoreOf(id) == IF id = "E2" THEN 30 ELSE 80
TextOrder == <<"E1", "E3", "E2">>

\* Entry.find({userId, $text: {$search: query}}).sort({score}).limit(limit)
textFind(userId, matching, limit) ==
    LET hit == SelectSeq(TextOrder, LAMBDA id : id \in matching /\ entries[id].userId = userId)
    IN [i \in 1..Min(limit, Len(hit)) |-> [id |-> hit[i], textScore |-> TextScoreOf(hit[i])]]

\* the sets of documents a query's words match
TextMatchSets == {{}, {"E2", "E3"}, Ids}

\* a similarity in hundredths, rounded down
Hundredths(x) == CHOOSE k \in 0..100 : /\ SimAtLeast(x, k)
                                       /\ k = 100 \/ ~SimAtLeast(x, k + 1)

\* the variables of the hybrid search besides the user's counter
hsearch ==
    <<hpc, hcaller, hbody, hopts, textMatches, simHits, providerFailed, combinedResults, hresp>>

\* GET /search/text
GetText ==
    /\ qpc = "idle"
    /\ spc = "idle"
    /\ \E userId \in Users, q \in {"x", ""}, matching \in TextMatchSets,
          limit \in 1..MaxLimit :
        LET rows == textFind(userId, matching, limit)
        IN /\ qreq' = [NoQReq EXCEPT !.op = "text", !.userId = userId, !.query = q,
                                     !.matching = matching, !.limit = limit]
           /\ IF q = ""
              THEN /\ qresp' = [NoQResp EXCEPT !.status = 400, !.code = "MISSING_QUERY"]
                   /\ UNCHANGED totalSearches
              ELSE /\ qresp' = [status |-> 200, code |-> "OK", searchType |-> "none",
                                results |-> rows, read |-> Touched(SeqIds(rows)),
                                written |-> {}]
                   /\ totalSearches' = totalSearches + 1
    /\ qpc' = "done"
    /\ UNCHANGED <<hsearch, entries, svars, lvars, cvars, rvars, avars, kvars>>

\* the rows of the text fallback of POST /search/vector: similarity = score / 10
vectorFallback(rows) ==
    [i \in 1..Len(rows) |-> [id |-> rows[i].id, similarity |-> rows[i].textScore \div 10]]

\* POST /search/vector: vectorSearchService.vectorSearch(req.user._id, query, options)
PostVector ==
    /\ qpc = "idle"
    /\ spc = "idle"
    /\ \E userId \in Users, query \in Queries, matching \in TextMatchSets,
          limit \in 1..MaxLimit, threshold \in SimThresholds, provider \in {"ok", "down"} :
        LET out == vectorSearchQuery(ObjectId(userId), QueryText(query), limit, threshold,
                                     provider)
            rows == textFind(userId, matching, limit)
        IN /\ qreq' = [op |-> "vector", userId |-> userId, entryId |-> "none",
                       query |-> query, matching |-> matching, limit |-> limit,
                       threshold |-> threshold, provider |-> provider]
           /\ IF out.err = "none"
              THEN /\ qresp' = [status |-> 200, code |-> "OK", searchType |-> out.searchType,
                                results |-> out.results, read |-> out.read, written |-> {}]
                   /\ totalSearches' = totalSearches + 1
              ELSE /\ qresp' = [status |-> 200, code |-> "OK", searchType |-> "text_fallback",
                                results |-> vectorFallback(rows),
                                read |-> out.read \cup Touched(SeqIds(rows)), written |-> {}]
                   /\ UNCHANGED totalSearches
    /\ qpc' = "done"
    /\ UNCHANGED <<hsearch, entries, svars, lvars, cvars, rvars, avars, kvars>>

\* vectorSearch called as hybridSearch calls it: vectorSearch(query, userId, options)
VectorSearchCall ==
    /\ qpc = "idle"
    /\ spc = "idle"
    /\ \E userId \in Users, query \in Queries, limit \in 1..MaxLimit,
          threshold \in SimThresholds, provider \in {"ok", "down"} :
        LET out == vectorSearchQuery(QueryText(query), ObjectId(userId), limit, threshold,
                                     provider)
        IN /\ qreq' = [op |-> "vectorSearch", userId |-> userId, entryId |-> "none",
                       query |-> query, matching |-> {}, limit |-> limit,
                       threshold |-> threshold, provider |-> provider]
           /\ qresp' = [status |-> IF out.err = "none" THEN 200 ELSE 500,
                        code |-> IF out.err = "none" THEN "OK" ELSE "THROWN",
                        searchType |-> out.searchType, results |-> out.results,
                        read |-> out.read, written |-> {}]
    /\ qpc' = "done"
    /\ UNCHANGED <<hvars, entries, svars, lvars, cvars, rvars, avars, kvars>>

\* the hits of vectorSearch as hybridSearch combines them
SimilarityHits(results) ==
    [i \in 1..Len(results) |->
        [id |-> results[i].id, similarity |-> Hundredths(results[i].similarity)]]

\* POST /search/hybrid with the default weights and limit
PostHybridEntries ==
    /\ qpc = "idle"
    /\ spc = "idle"
    /\ \E userId \in Users, query \in Queries, matching \in TextMatchSets,
          provider \in {"ok", "down"} :
        LET opts == routeOptions(NoBody)
            texts == textFind(userId, matching, opts.limit * 2)
            vec == vectorSearchQuery(QueryText(query), ObjectId(userId), opts.limit * 2, 30,
                                     provider)
            rows == textFind(userId, matching, opts.limit)
        IN /\ qreq' = [op |-> "hybrid", userId |-> userId, entryId |-> "none",
                       query |-> query, matching |-> matching, limit |-> opts.limit,
                       threshold |-> 30, provider |-> provider]
           /\ IF vec.err = "none"
              THEN /\ qresp' = [status |-> 200, code |-> "OK", searchType |-> "hybrid",
                                results |-> hybridSearch(texts, SimilarityHits(vec.results),
                                                         opts),
                                read |-> Touched(SeqIds(texts)) \cup vec.read,
                                written |-> {}]
                   /\ totalSearches' = totalSearches + 1
              ELSE /\ qresp' = [status |-> 200, code |-> "OK", searchType |-> "text_fallback",
                                results |-> textFallback(rows, NoBody),
                                read |-> Touched(SeqIds(texts)) \cup vec.read, written |-> {}]
                   /\ UNCHANGED totalSearches
    /\ qpc' = "done"
    /\ UNCHANGED <<hsearch, entries, svars, lvars, cvars, rvars, avars, kvars>>

\* Entry.findOne({_id: req.params.id, userId: req.user._id})
findOneEntry(entryId, userId) ==
    IF entryId \in Ids /\ entries[entryId].userId = userId THEN {entryId} ELSE {}

NotFound == [NoQResp EXCEPT !.status = 404, !.code = "ENTRY_NOT_FOUND"]

\* what the entries routes answer about the documents they found and saved
EntryAnswer(read, written) ==
    [status |-> 200, code |-> "OK", searchType |-> "none", results |-> <<>>,
     read |-> Touched(read), written |-> Touched(written)]

\* GET /entries/:id: findOne, then entry.incrementView() saves the document
GetEntry ==
    /\ qpc = "idle"
    /\ spc = "idle"
    /\ \E userId \in Users, entryId \in Ids \cup {"E9"} :
        LET entry == findOneEntry(entryId, userId)
        IN /\ qreq' = [NoQReq EXCEPT !.op = "get", !.userId = userId, !.entryId = entryId]
           /\ qresp' = IF entry = {} THEN NotFound ELSE EntryAnswer(entry, entry)
    /\ qpc' = "done"
    /\ UNCHANGED <<hvars, entries, svars, lvars, cvars, rvars, avars, kvars>>

\* GET /entries/:id/stats
GetEntryStats ==
    /\ qpc = "idle"
    /\ spc = "idle"
    /\ \E userId \in Users, entryId \in Ids \cup {"E9"} :
        LET entry == findOneEntry(entryId, userId)
        IN /\ qreq' = [NoQReq EXCEPT !.op = "stats", !.userId = userId, !.entryId = entryId]
           /\ qresp' = IF entry = {} THEN NotFound ELSE EntryAnswer(entry, {})
    /\ qpc' = "done"
    /\ UNCHANGED <<hvars, entries, svars, lvars, cvars, rvars, avars, kvars>>

\* PUT /entries/:id: entry.save(), and with new content the embedding that
\* generateEntryEmbeddings stores on the same document when the provider answers
PutEntry ==
    /\ qpc = "idle"
    /\ spc = "idle"
    /\ \E userId \in Users, entryId \in Ids \cup {"E9"}, query \in {"", "x"},
          provider \in {"ok", "down"} :
        LET entry == findOneEntry(entryId, userId)
            embedding == generateEmbedding(QueryText(query), provider)
        IN /\ qreq' = [NoQReq EXCEPT !.op = "put", !.userId = userId, !.entryId = entryId,
                                     !.query = query, !.provider = provider]
           /\ qresp' = IF entry = {} THEN NotFound ELSE EntryAnswer(entry, entry)
           /\ entries' = IF entry # {} /\ embedding.err = "none"
                         THEN [entries EXCEPT ![entryId].vector = Arr(embedding.vector)]
                         ELSE entries
    /\ qpc' = "done"
    /\ UNCHANGED <<hvars, svars, lvars, cvars, rvars, avars, kvars>>

\* a document that was deleted
NoEntry == [userId |-> "none", vector |-> NoField]

\* DELETE /entries/:id
DeleteEntry ==
    /\ qpc = "idle"
    /\ spc = "idle"
    /\ \E userId \in Users, entryId \in Ids \cup {"E9"} :
        LET entry == findOneEntry(entryId, userId)
        IN /\ qreq' = [NoQReq EXCEPT !.op = "delete", !.userId = userId, !.entryId = entryId]
           /\ IF entry = {}
              THEN /\ qresp' = NotFound
                   /\ UNCHANGED <<entries, totalEntries>>
              ELSE /\ qresp' = EntryAnswer(entry, entry)
                   /\ entries' = [entries EXCEPT ![entryId] = NoEntry]
                   /\ totalEntries' =
                          [totalEntries EXCEPT ![userId] = IF @ - 1 < 0 THEN 0 ELSE @ - 1]
    /\ qpc' = "done"
    /\ UNCHANGED <<hvars, svars, docs, inflight, dispatched, lresp, cvars, rvars, avars, kvars>>

\* GET /search/similar/:entryId as the only request
GetSimilarOnly ==
    /\ qpc = "idle"
    /\ GetSimilar

\* the collection, and each user's counter of the entries created
InitSearch ==
    /\ InitNoRequest
    /\ InitNoCosine
    /\ entries \in Collections
    /\ docs = [id \in EntryIds |-> NoDoc]
    /\ inflight = <<>>
    /\ dispatched = 0
    /\ totalEntries = [u \in Users |-> Cardinality({id \in Ids : entries[id].userId = u})]
    /\ lresp = NoEntryResp
    /\ hpc = "idle"
    /\ hcaller = "none"
    /\ hbody = NoBody
    /\ hopts = NoOpts
    /\ textMatches = <<>>
    /\ simHits = <<>>
    /\ providerFailed = FALSE
    /\ combinedResults = <<>>
    /\ hresp = NoResp
    /\ totalSearches = 0
    /\ spc = "idle"
    /\ sreq = NoSimReq
    /\ sscored = <<>>
    /\ sresp = NoSimResp

NextSearch ==
    \/ GetText
    \/ PostVector
    \/ VectorSearchCall
    \/ PostHybridEntries
    \/ GetSimilarOnly
    \/ GetEntry
    \/ GetEntryStats
    \/ PutEntry
    \/ DeleteEntry

SpecSearch == InitSearch /\ [][NextSearch]_vars

\* ------------------------------------------------------------------------
\* JavaScript numbers as IEEE-754 doubles, for the arithmetic of
\* calculateCosineSimilarity: Math.sqrt, * and / round to the nearest double,
\* ties to even.  A double is sign * m * 2^e with 2^52 <= m < 2^53, the
\* mantissa m a natural number written in limbs, least significant first.
\* ------------------------------------------------------------------------
LimbBits == 14
LimbBase == 2 ^ LimbBits
MantissaBits == 53

LimbAt(x, i) == IF i >= 1 /\ i <= Len(x) THEN x[i] ELSE 0

\* x without its leading zero limbs
BigNorm(x) ==
    LET used == {i \in 1..Len(x) : x[i] # 0}
    IN IF used = {} THEN <<>>
       ELSE SubSeq(x, 1, CHOOSE i \in used : \A j \in used : j <= i)

\* x + y: position k receives a carry when a lower position overflows and
\* every position between is full
BigAdd(x, y) ==
    LET n == IF Len(x) > Len(y) THEN Len(x) ELSE Len(y)
        sum == [k \in 1..(n + 1) |-> LimbAt(x, k) + LimbAt(y, k)]
        carry == [k \in 1..(n + 1) |->
                     IF \E j \in 1..(k - 1) : /\ sum[j] >= LimbBase
                                              /\ \A i \in (j + 1)..(k - 1) : sum[i] = LimbBase - 1
                     THEN 1 ELSE 0]
    IN BigNorm([k \in 1..(n + 1) |-> (sum[k] + carry[k]) % LimbBase])

\* x - y for x >= y: position k lends when a lower position is short and
\* every position between is level
BigSub(x, y) ==
    LET diff == [k \in 1..Len(x) |-> x[k] - LimbAt(y, k)]
        borrow == [k \in 1..Len(x) |->
                      IF \E j \in 1..(k - 1) : /\ diff[j] < 0
                                               /\ \A i \in (j + 1)..(k - 1) : diff[i] = 0
                      THEN 1 ELSE 0]
    IN BigNorm([k \in 1..Len(x) |-> (diff[k] - borrow[k] + LimbBase) % LimbBase])

\* -1, 0 or 1 as x <, = or > y
BigCmp(x, y) ==
    IF Len(x) < Len(y) THEN -1
    ELSE IF Len(x) > Len(y) THEN 1
    ELSE LET differ == {i \in 1..Len(x) : x[i] # y[i]}
         IN IF differ = {} THEN 0
            ELSE LET top == CHOOSE i \in differ : \A j \in differ : j <= i
                 IN IF x[top] < y[top] THEN -1 ELSE 1

\* x * y for a factor of at most four limbs: the columns of the long
\* multiplication, each below 4 * LimbBase^2, added limb by limb
BigMul(x, y) ==
    LET a == IF Len(x) <= Len(y) THEN x ELSE y
        b == IF Len(x) <= Len(y) THEN y ELSE x
        n == Len(a) + Len(b)
        col == [k \in 1..n |-> LimbAt(a, 1) * LimbAt(b, k) + LimbAt(a, 2) * LimbAt(b, k - 1)
                               + LimbAt(a, 3) * LimbAt(b, k - 2) + LimbAt(a, 4) * LimbAt(b, k - 3)]
        low == [k \in 1..n |-> col[k] % LimbBase]
        mid == [k \in 1..(n + 1) |-> IF k = 1 THEN 0 ELSE (col[k - 1] \div LimbBase) % LimbBase]
        high == [k \in 1..(n + 2) |-> IF k <= 2 THEN 0 ELSE col[k - 2] \div (LimbBase * LimbBase)]
    IN BigAdd(BigAdd(low, mid), high)

\* 2^k
BigPow2(k) ==
    [i \in 1..(k \div LimbBits + 1) |->
        IF i = k \div LimbBits + 1 THEN 2 ^ (k % LimbBits) ELSE 0]

\* number of binary digits of a natural number below 2^31
IntBitLength(n) == Cardinality({k \in 0..30 : 2 ^ k <= n})

\* number of binary digits of x
BigBitLength(x) == IF x = <<>> THEN 0 ELSE LimbBits * (Len(x) - 1) + IntBitLength(x[Len(x)])

\* floor(x / 2^k)
BigShiftRight(x, k) ==
    LET w == k \div LimbBits
        r == k % LimbBits
    IN BigNorm([i \in 1..(Len(x) - w) |->
                   (x[i + w] \div (2 ^ r))
                   + (LimbAt(x, i + w + 1) % (2 ^ r)) * (2 ^ (LimbBits - r))])

DoubleZero == [sign |-> 0, m |-> <<>>, e |-> 0]

\* the double sign * m * 2^e of a mantissa that rounding may have carried to 2^53
DoubleOf(sign, m, e) ==
    IF BigCmp(m, BigPow2(MantissaBits)) = 0
    THEN [sign |-> sign, m |-> BigPow2(MantissaBits - 1), e |-> e + 1]
    ELSE [sign |-> sign, m |-> m, e |-> e]

\* q or q + 1: q = floor(x / y) rounded to nearest, ties to even, by the
\* remainder rem = x - q * y
RoundNearestEven(q, rem, y) ==
    LET c == BigCmp(BigAdd(rem, rem), y)
    IN IF c > 0 \/ (c = 0 /\ q # <<>> /\ q[1] % 2 = 1) THEN BigAdd(q, <<1>>) ELSE q

\* an integer held exactly by a double (|n| < 2^31 here)
DoubleOfInt(n) ==
    IF n = 0 THEN DoubleZero
    ELSE LET a == IF n < 0 THEN -n ELSE n
             shift == MantissaBits - IntBitLength(a)
             limbs == BigNorm(<<a % LimbBase, (a \div LimbBase) % LimbBase,
                                a \div (LimbBase * LimbBase)>>)
         IN [sign |-> IF n < 0 THEN -1 ELSE 1, m |-> BigMul(limbs, BigPow2(shift)),
             e |-> -shift]

\* a * b
DoubleMultiply(a, b) ==
    IF a.sign = 0 \/ b.sign = 0 THEN DoubleZero
    ELSE LET x == BigMul(a.m, b.m)
             k == BigBitLength(x) - MantissaBits
             q == BigShiftRight(x, k)
             rem == BigSub(x, BigMul(q, BigPow2(k)))
         IN DoubleOf(a.sign * b.sign, RoundNearestEven(q, rem, BigPow2(k)), a.e + b.e + k)

\* Math.sqrt and the division return the correctly rounded result. Its
\* mantissa q = floor(sqrt(x)) or floor(x / y) is found one binary digit at a
\* time from the top: digit `bit` is set when q + 2^bit still has its square
\* (root) or its product with y (quotient) at most x.
NoDigits == [x |-> <<>>, y |-> <<>>, bit |-> -1, q |-> <<>>]

DigitStep(d, root) ==
    LET t == BigAdd(d.q, BigPow2(d.bit))
        fits == BigCmp(BigMul(t, IF root THEN t ELSE d.y), d.x) <= 0
    IN [d EXCEPT !.bit = d.bit - 1, !.q = IF fits THEN t ELSE d.q]

\* Math.sqrt(a) for a >= 0: a = m * 2^e is scaled to x * 2^(e - scale) with
\* e - scale even, so that the root of x has MantissaBits digits
SqrtScale(a) == IF (a.e - (MantissaBits - 1)) % 2 = 0 THEN MantissaBits - 1 ELSE MantissaBits

SqrtDigits(a) ==
    IF a.sign = 0 THEN NoDigits
    ELSE [x |-> BigMul(a.m, BigPow2(SqrtScale(a))), y |-> <<>>,
          bit |-> MantissaBits - 1, q |-> <<>>]

\* the root rounded to nearest: up when x - q^2 > q, that is x > (q + 1/2)^2
SqrtRounded(a, d) ==
    IF a.sign = 0 THEN DoubleZero
    ELSE LET rem == BigSub(d.x, BigMul(d.q, d.q))
             m == IF BigCmp(rem, d.q) > 0 THEN BigAdd(d.q, <<1>>) ELSE d.q
         IN DoubleOf(1, m, (a.e - SqrtScale(a)) \div 2)

\* a / b for b # 0: a.m is scaled so that the quotient has MantissaBits digits
DivideScale(a, b) == IF BigCmp(a.m, b.m) < 0 THEN MantissaBits ELSE MantissaBits - 1

DivideDigits(a, b) ==
    IF a.sign = 0 THEN NoDigits
    ELSE [x |-> BigMul(a.m, BigPow2(DivideScale(a, b))), y |-> b.m,
          bit |-> MantissaBits - 1, q |-> <<>>]

DivideRounded(a, b, d) ==
    IF a.sign = 0 THEN DoubleZero
    ELSE LET rem == BigSub(d.x, BigMul(d.q, d.y))
         IN DoubleOf(a.sign * b.sign, RoundNearestEven(d.q, rem, d.y),
                     a.e - b.e - DivideScale(a, b))

\* ------------------------------------------------------------------------
\* EmbeddingService.calculateCosineSimilarity called with two arrays
\* ------------------------------------------------------------------------
CosineComponents == {-1, 0, 1, 3}
CosineVectors == UNION {[1..n -> CosineComponents] : n \in 0..MaxDim}

CosineResult(value) ==
    [err |-> "none", sim |-> calculateCosineSimilarity(Arr(cosA), Arr(cosB)).sim,
     value |-> value, called |-> TRUE]

\* the length check and the loop; the sums of the loop are sums of products
\* of small integers, exact in a double
CosineCall ==
    /\ cosPc = "idle"
    /\ LET out == calculateCosineSimilarity(Arr(cosA), Arr(cosB))
       IN IF out.err # "none"
          THEN /\ cosOut' = [err |-> out.err, sim |-> out.sim, value |-> DoubleZero,
                             called |-> TRUE]
               /\ cosPc' = "done"
               /\ UNCHANGED <<cosLocals, cosDigits>>
          ELSE /\ cosLocals' = [dotProduct |-> DoubleOfInt(Dot(cosA, cosB)),
                                normA |-> DoubleOfInt(Dot(cosA, cosA)),
                                normB |-> DoubleOfInt(Dot(cosB, cosB)),
                                product |-> DoubleZero]
               /\ cosDigits' = SqrtDigits(DoubleOfInt(Dot(cosA, cosA)))
               /\ cosPc' = "sqrtA"
               /\ UNCHANGED cosOut
    /\ UNCHANGED <<cosA, cosB, hvars, entries, svars, lvars, rvars, qvars, avars, kvars>>

\* one digit of Math.sqrt(normA) or Math.sqrt(normB)
CosineSqrtDigit ==
    /\ cosPc \in {"sqrtA", "sqrtB"}
    /\ cosDigits.bit >= 0
    /\ cosDigits' = DigitStep(cosDigits, TRUE)
    /\ UNCHANGED <<cosPc, cosA, cosB, cosOut, cosLocals, hvars, entries, svars, lvars, rvars, qvars, avars, kvars>>

\* normA = Math.sqrt(normA); normB = Math.sqrt(normB)
CosineSqrtDone ==
    /\ cosPc \in {"sqrtA", "sqrtB"}
    /\ cosDigits.bit < 0
    /\ IF cosPc = "sqrtA"
       THEN /\ cosLocals' = [cosLocals EXCEPT !.normA = SqrtRounded(cosLocals.normA, cosDigits)]
            /\ cosDigits' = SqrtDigits(cosLocals.normB)
            /\ cosPc' = "sqrtB"
       ELSE /\ cosLocals' = [cosLocals EXCEPT !.normB = SqrtRounded(cosLocals.normB, cosDigits)]
            /\ cosDigits' = NoDigits
            /\ cosPc' = "rooted"
    /\ UNCHANGED <<cosA, cosB, cosOut, hvars, entries, svars, lvars, rvars, qvars, avars, kvars>>

\* if (normA === 0 || normB === 0) return 0; otherwise normA * normB
CosineProduct ==
    /\ cosPc = "rooted"
    /\ IF cosLocals.normA.sign = 0 \/ cosLocals.normB.sign = 0
       THEN /\ cosOut' = CosineResult(DoubleZero)
            /\ cosPc' = "done"
            /\ UNCHANGED <<cosLocals, cosDigits>>
       ELSE LET product == DoubleMultiply(cosLocals.normA, cosLocals.normB)
            IN /\ cosLocals' = [cosLocals EXCEPT !.product = product]
               /\ cosDigits' = DivideDigits(cosLocals.dotProduct, product)
               /\ cosPc' = "divide"
               /\ UNCHANGED cosOut
    /\ UNCHANGED <<cosA, cosB, hvars, entries, svars, lvars, rvars, qvars, avars, kvars>>

\* one digit of dotProduct / (normA * normB)
CosineDivideDigit ==
    /\ cosPc = "divide"
    /\ cosDigits.bit >= 0
    /\ cosDigits' = DigitStep(cosDigits, FALSE)
    /\ UNCHANGED <<cosPc, cosA, cosB, cosOut, cosLocals, hvars, entries, svars, lvars, rvars, qvars, avars, kvars>>

\* return dotProduct / (normA * normB)
CosineReturn ==
    /\ cosPc = "divide"
    /\ cosDigits.bit < 0
    /\ cosOut' = CosineResult(DivideRounded(cosLocals.dotProduct, cosLocals.product, cosDigits))
    /\ cosDigits' = NoDigits
    /\ cosPc' = "done"
    /\ UNCHANGED <<cosA, cosB, cosLocals, hvars, entries, svars, lvars, rvars, qvars, avars, kvars>>

InitCosine ==
    /\ InitRank
    /\ entries = NoEntries
    /\ spc = "idle"
    /\ sreq = NoSimReq
    /\ sscored = <<>>
    /\ sresp = NoSimResp
    /\ repeated = NoRepeat
    /\ cosPc = "idle"
    /\ cosA \in CosineVectors
    /\ cosB \in CosineVectors
    /\ cosOut = NoCosine
    /\ cosLocals = NoLocals
    /\ cosDigits = [x |-> <<>>, y |-> <<>>, bit |-> -1, q |-> <<>>]

NextCosine ==
    \/ CosineCall
    \/ CosineSqrtDigit
    \/ CosineSqrtDone
    \/ CosineProduct
    \/ CosineDivideDigit
    \/ CosineReturn

SpecCosine == InitCosine /\ [][NextCosine]_vars

\* ------------------------------------------------------------------------
\* POST /entries, PUT /entries/:id, POST /search/embeddings/generate and
\* VectorSearchService.generateEntryEmbeddings / generateBatchEmbeddings
\* ------------------------------------------------------------------------
\* req.body.content when the body has no content
NoContent == "undefined"

EntryResp(status, code) ==
    [status |-> status, code |-> code, totalEntries |-> 0, successful |-> 0, failed |-> 0]

\* {message: 'Embedding generation completed', totalEntries, successful, failed}
BatchResp(total, successful) ==
    [status |-> 200, code |-> "Embedding generation completed", totalEntries |-> total,
     successful |-> successful, failed |-> total - successful]

RemoveAt(s, i) == SubSeq(s, 1, i - 1) \o SubSeq(s, i + 1, Len(s))

\* prepareTextForEmbedding(entry): the entries of this model have no title
\* and no tags, so the parts are the content alone
prepareTextForEmbedding(doc) == doc.raw

\* generateEntryEmbeddings(entry) up to its first await: generateEmbedding is
\* called with the entry's text.  A call made by generateBatchEmbeddings
\* carries the loop's remaining entries and its results so far.
generateEntryEmbeddings(id, doc, origin, userId, rest, total, successful) ==
    [id |-> id, text |-> prepareTextForEmbedding(doc), origin |-> origin, userId |-> userId,
     rest |-> rest, total |-> total, successful |-> successful]

\* new Entry(entryData): the fresh _id
FreshIds == {i \in 1..Len(EntryOrder) : docs[EntryOrder[i]] = NoDoc}
NewId == EntryOrder[CHOOSE i \in FreshIds : \A j \in FreshIds : i <= j]

\* POST /entries
PostEntries ==
    /\ \E userId \in Users, content \in Contents \cup {"", NoContent} :
           IF content \in {"", NoContent}
           THEN /\ lresp' = EntryResp(400, "VALIDATION_ERROR")
                /\ UNCHANGED <<docs, inflight, dispatched, totalEntries>>
           ELSE /\ FreshIds # {}
                /\ dispatched < MaxCalls
                /\ LET doc == [NoDoc EXCEPT !.userId = userId, !.raw = content]
                   IN /\ docs' = [docs EXCEPT ![NewId] = doc]
                      /\ inflight' = Append(inflight,
                             generateEntryEmbeddings(NewId, doc, "create", userId, <<>>, 1, 0))
                /\ dispatched' = dispatched + 1
                /\ totalEntries' = [totalEntries EXCEPT ![userId] = @ + 1]
                /\ lresp' = EntryResp(201, "Entry created successfully")
    /\ UNCHANGED <<hvars, entries, svars, cvars, rvars, qvars, avars, kvars>>

\* PUT /entries/:id
PutEntries ==
    /\ \E userId \in Users, id \in EntryIds, content \in Contents \cup {"", NoContent} :
           IF content = ""
           THEN /\ lresp' = EntryResp(400, "VALIDATION_ERROR")
                /\ UNCHANGED <<docs, inflight, dispatched, totalEntries>>
           ELSE IF docs[id].userId # userId
           THEN /\ lresp' = EntryResp(404, "ENTRY_NOT_FOUND")
                /\ UNCHANGED <<docs, inflight, dispatched, totalEntries>>
           ELSE IF content = NoContent
           THEN /\ lresp' = EntryResp(200, "Entry updated successfully")
                /\ UNCHANGED <<docs, inflight, dispatched, totalEntries>>
           ELSE /\ dispatched < MaxCalls
                /\ LET doc == [docs[id] EXCEPT !.raw = content]
                   IN /\ docs' = [docs EXCEPT ![id] = doc]
                      /\ inflight' = Append(inflight,
                             generateEntryEmbeddings(id, doc, "edit", userId, <<>>, 1, 0))
                /\ dispatched' = dispatched + 1
                /\ lresp' = EntryResp(200, "Entry updated successfully")
                /\ UNCHANGED totalEntries
    /\ UNCHANGED <<hvars, entries, svars, cvars, rvars, qvars, avars, kvars>>

\* Entry.find({userId, _id: {$in: ids}}): the documents as they are read
UserDocs(userId, ids) ==
    LET hit == SelectSeq(EntryOrder, LAMBDA id : id \in ids /\ docs[id].userId = userId)
    IN [i \in 1..Len(hit) |-> [id |-> hit[i], doc |-> docs[hit[i]]]]

\* Entry.find({userId, $or: [{vector: {$exists: false}}, {vector: null}]}):
\* a saved entry's embeddings.vector is an array, the empty one by default
DocsWithoutVector(userId) == SelectSeq(UserDocs(userId, EntryIds), LAMBDA e : FALSE)

BatchJobs == {i \in 1..Len(inflight) : inflight[i].origin = "batch"}

\* generateBatchEmbeddings(entries) up to its first await
generateBatchEmbeddings(userId, found) ==
    /\ Cardinality(BatchJobs) < MaxJobs
    /\ dispatched + Len(found) <= MaxCalls
    /\ inflight' = Append(inflight,
           generateEntryEmbeddings(found[1].id, found[1].doc, "batch", userId,
                                   Tail(found), Len(found), 0))
    /\ dispatched' = dispatched + Len(found)
    /\ UNCHANGED <<docs, totalEntries, lresp>>

\* regenerateAllEmbeddings(userId); of no entries the loop is empty
PostGenerateAll(userId) ==
    LET found == UserDocs(userId, EntryIds)
    IN IF found = <<>>
       THEN /\ lresp' = BatchResp(0, 0)
            /\ UNCHANGED <<docs, inflight, dispatched, totalEntries>>
       ELSE generateBatchEmbeddings(userId, found)

\* entryIds given: ENTRIES_NOT_FOUND is thrown inside the route's try
PostGenerateIds(userId, entryIds) ==
    LET found == UserDocs(userId, entryIds)
    IN IF found = <<>>
       THEN /\ lresp' = EntryResp(500, "EMBEDDING_GENERATION_FAILED")
            /\ UNCHANGED <<docs, inflight, dispatched, totalEntries>>
       ELSE generateBatchEmbeddings(userId, found)

\* neither: the entries without embeddings
PostGenerateMissing(userId) ==
    LET found == DocsWithoutVector(userId)
    IN IF found = <<>>
       THEN /\ lresp' = [BatchResp(0, 0) EXCEPT !.code = "All entries already have embeddings"]
            /\ UNCHANGED <<docs, inflight, dispatched, totalEntries>>
       ELSE generateBatchEmbeddings(userId, found)

\* POST /search/embeddings/generate
PostGenerate ==
    /\ \E userId \in Users :
           \/ PostGenerateAll(userId)
           \/ \E entryIds \in (SUBSET EntryIds) \ {{}} : PostGenerateIds(userId, entryIds)
           \/ PostGenerateMissing(userId)
    /\ UNCHANGED <<hvars, entries, svars, cvars, rvars, qvars, avars, kvars>>

\* a call that settles and is still counted as pending
CallSettledKept(i) ==
    /\ UNCHANGED <<inflight, lresp>>

\* after generateEntryEmbeddings settles: a fire-and-forget call is over; the
\* loop of generateBatchEmbeddings pushes a result and goes on to its next
\* entry, or returns and the route reports.  results.filter(entry =>
\* entry.embeddings?.vector) counts every pushed entry, the array being truthy
\* whether or not the generation succeeded.
CallSettled(i) ==
    LET call == inflight[i]
    IN IF call.origin # "batch"
       THEN /\ inflight' = RemoveAt(inflight, i)
            /\ UNCHANGED lresp
       ELSE IF call.rest = <<>>
       THEN /\ inflight' = RemoveAt(inflight, i)
            /\ lresp' = BatchResp(call.total, call.successful + 1)
       ELSE /\ inflight' = [inflight EXCEPT ![i] =
                   generateEntryEmbeddings(call.rest[1].id, call.rest[1].doc, "batch",
                                           call.userId, Tail(call.rest), call.total,
                                           call.successful + 1)]
            /\ UNCHANGED lresp

\* config.embeddingDimension, and the length of the local mock embedding
embeddingDimension == 1536
LocalDimension == 384

\* What generateOpenAIEmbedding or generateLocalEmbedding can resolve to: a
\* vector is kept as its length and the sum of its elements.  The remote
\* model answers with the configured length, the local mock with
\* LocalDimension random numbers.
ProviderVectors ==
    {[dimension |-> embeddingDimension, sum |-> 7],
     [dimension |-> LocalDimension, sum |-> 7],
     [dimension |-> LocalDimension, sum |-> -40]}

Base36 == <<"0", "1", "2", "3", "4", "5", "6", "7", "8", "9", "a", "b", "c", "d", "e", "f", "g",
            "h", "i", "j", "k", "l", "m", "n", "o", "p", "q", "r", "s", "t", "u", "v", "w", "x",
            "y", "z">>

\* Math.abs(sum).toString(36).substring(0, 8), for |sum| < 36^2
calculateChecksum(vector) ==
    LET a == IF vector.sum < 0 THEN -vector.sum ELSE vector.sum
        text == IF a < 36 THEN <<Base36[a + 1]>> ELSE <<Base36[(a \div 36) + 1], Base36[(a % 36) + 1]>>
    IN SubSeq(text, 1, Min(8, Len(text)))

\* generateEmbedding resolves: entry.embeddings is set and the entry saved
ProviderReturns ==
    /\ \E i \in 1..Len(inflight), vector \in ProviderVectors :
           /\ docs' = [docs EXCEPT ![inflight[i].id] =
                           [@ EXCEPT !.embeddingOf = inflight[i].text,
                                     !.dimension = vector.dimension,
                                     !.checksum = calculateChecksum(vector)]]
           /\ CallSettled(i)
           /\ UNCHANGED <<dispatched, totalEntries>>
    /\ UNCHANGED <<hvars, entries, svars, cvars, rvars, qvars, avars, kvars>>

\* a failure that leaves the assigned embeddings on record
GenerateFailsStored ==
    /\ \E i \in 1..Len(inflight), vector \in ProviderVectors :
           /\ docs' = [docs EXCEPT ![inflight[i].id] =
                           [@ EXCEPT !.embeddingOf = inflight[i].text,
                                     !.dimension = vector.dimension,
                                     !.checksum = calculateChecksum(vector)]]
           /\ CallSettled(i)
           /\ UNCHANGED <<dispatched, totalEntries>>
    /\ UNCHANGED <<hvars, entries, svars, cvars, rvars, qvars, avars, kvars>>

\* generateEmbedding or entry.save() rejects: generateEntryEmbeddings rethrows
GenerateFails ==
    /\ \E i \in 1..Len(inflight) :
           /\ CallSettled(i)
           /\ UNCHANGED <<docs, dispatched, totalEntries>>
    /\ UNCHANGED <<hvars, entries, svars, cvars, rvars, qvars, avars, kvars>>

InitLifecycle ==
    /\ InitRank
    /\ InitNoCosine
    /\ entries = NoEntries
    /\ spc = "idle"
    /\ sreq = NoSimReq
    /\ sscored = <<>>
    /\ sresp = NoSimResp

NextLifecycle ==
    \/ PostEntries
    \/ PutEntries
    \/ PostGenerate
    \/ ProviderReturns
    \/ GenerateFails

SpecLifecycle == InitLifecycle /\ [][NextLifecycle]_vars

\* The provider call is bounded by the request timeout (timeout: 30000) and
\* the local mock resolves at once: a pending generateEntryEmbeddings call
\* settles, by its return or by its catch.
SpecLifecycleFair == SpecLifecycle /\ WF_vars(ProviderReturns \/ GenerateFails)

\* The behaviours in which every provider call and every save succeeds
NextLifecycleNoFailure ==
    \/ PostEntries
    \/ PutEntries
    \/ PostGenerate
    \/ ProviderReturns

SpecLifecycleNoFailure == InitLifecycle /\ [][NextLifecycleNoFailure]_vars

\* ------------------------------------------------------------------------
\* Requests in progress at once: the auth middleware, then POST /entries and
\* DELETE /entries/:id, each step up to its next await
\* ------------------------------------------------------------------------
\* the Authorization header: none, another scheme, a Bearer token that is
\* malformed or wrongly signed, expired, not yet valid (nbf), or valid for a user
Tokens == {"none", "basic", "malformed", "expired", "notBefore"} \cup Users

\* User.findById(decoded.id): an active user, a disabled one, null, or a
\* rejected query
Lookups == {"active", "disabled", "missing", "error"}

\* jwt.verify(token, config.jwtSecret): the error thrown, or "none"
jwtVerify(token) ==
    IF token = "malformed" THEN "JsonWebTokenError"
    ELSE IF token = "expired" THEN "TokenExpiredError"
    ELSE IF token = "notBefore" THEN "NotBeforeError"
    ELSE "none"

\* errorHandler: the status and code answered for an error that auth throws
errorHandler(error) ==
    IF error \in {"NO_TOKEN", "USER_NOT_FOUND", "ACCOUNT_DISABLED", "INVALID_TOKEN",
                  "TOKEN_EXPIRED"}
    THEN [status |-> 401, code |-> error]
    ELSE [status |-> 500, code |-> "INTERNAL_ERROR"]

\* auth(req, res, next): "next" when req.user is set, else the error thrown
auth(token, found) ==
    IF token \in {"none", "basic"} THEN "NO_TOKEN"
    ELSE IF jwtVerify(token) = "JsonWebTokenError" THEN "INVALID_TOKEN"
    ELSE IF jwtVerify(token) = "TokenExpiredError" THEN "TOKEN_EXPIRED"
    ELSE IF jwtVerify(token) # "none" THEN jwtVerify(token)
    ELSE IF found = "error" THEN "MongoError"
    ELSE IF found = "missing" THEN "USER_NOT_FOUND"
    ELSE IF found = "disabled" THEN "ACCOUNT_DISABLED"
    ELSE "next"

Answered(session, status, code) ==
    [session EXCEPT !.pc = "done", !.status = status, !.code = code]

\* a request arrives and passes through auth; req.user is the user document
\* as loaded by User.findById
Auth(s) ==
    /\ sessions[s].pc = "free"
    /\ \E op \in {"post", "delete"}, token \in Tokens, found \in Lookups,
          target \in EntryIds :
        LET outcome == auth(token, found)
            request == [NoSession EXCEPT !.op = op, !.token = token,
                                         !.found = IF token \in Users THEN found ELSE "none",
                                         !.target = IF op = "delete" THEN target ELSE "none"]
        IN \* no lookup without a verified token; no :id in POST /entries
           /\ token \notin Users => found = "missing"
           /\ op = "post" => target = "E1"
           /\ sessions' = [sessions EXCEPT ![s] =
                  IF outcome = "next"
                  THEN [request EXCEPT !.pc = "handler", !.userId = token,
                                       !.loaded = totalEntries[token]]
                  ELSE Answered(request, errorHandler(outcome).status,
                                errorHandler(outcome).code)]
    /\ UNCHANGED <<hvars, entries, svars, lvars, cvars, rvars, qvars, kvars>>

\* POST /entries: await entry.save(), then generateEntryEmbeddings(entry) is
\* started and not awaited
PostSave(s) ==
    /\ sessions[s].pc = "handler"
    /\ sessions[s].op = "post"
    /\ FreshIds # {}
    /\ dispatched < MaxCalls
    /\ \E content \in Contents :
        LET doc == [NoDoc EXCEPT !.userId = sessions[s].userId, !.raw = content]
        IN /\ docs' = [docs EXCEPT ![NewId] = doc]
           /\ inflight' = Append(inflight,
                  generateEntryEmbeddings(NewId, doc, "create", sessions[s].userId, <<>>, 1, 0))
    /\ dispatched' = dispatched + 1
    /\ sessions' = [sessions EXCEPT ![s].pc = "stats", ![s].target = NewId]
    /\ UNCHANGED <<hvars, entries, svars, totalEntries, lresp, cvars, rvars, qvars, kvars>>

\* POST /entries: req.user.stats.totalEntries += 1; await req.user.save()
PostStats(s) ==
    /\ sessions[s].pc = "stats"
    /\ sessions[s].op = "post"
    /\ totalEntries' = [totalEntries EXCEPT ![sessions[s].userId] = sessions[s].loaded + 1]
    /\ sessions' = [sessions EXCEPT ![s] = Answered(@, 201, "Entry created successfully")]
    /\ UNCHANGED <<hvars, entries, svars, docs, inflight, dispatched, lresp, cvars, rvars,
                   qvars, kvars>>

\* DELETE /entries/:id: await Entry.findOne({_id, userId})
DeleteFind(s) ==
    /\ sessions[s].pc = "handler"
    /\ sessions[s].op = "delete"
    /\ sessions' = [sessions EXCEPT ![s] =
           IF docs[sessions[s].target].userId = sessions[s].userId
           THEN [@ EXCEPT !.pc = "found"]
           ELSE Answered(@, 404, "ENTRY_NOT_FOUND")]
    /\ UNCHANGED <<hvars, entries, svars, lvars, cvars, rvars, qvars, kvars>>

\* DELETE /entries/:id: await entry.deleteOne()
DeleteOne(s) ==
    /\ sessions[s].pc = "found"
    /\ docs' = [docs EXCEPT ![sessions[s].target] = NoDoc]
    /\ sessions' = [sessions EXCEPT ![s].pc = "stats"]
    /\ UNCHANGED <<hvars, entries, svars, inflight, dispatched, totalEntries, lresp, cvars,
                   rvars, qvars, kvars>>

\* DELETE /entries/:id: req.user.stats.totalEntries =
\* Math.max(0, req.user.stats.totalEntries - 1); await req.user.save()
DeleteStats(s) ==
    /\ sessions[s].pc = "stats"
    /\ sessions[s].op = "delete"
    /\ totalEntries' = [totalEntries EXCEPT ![sessions[s].userId] =
                           IF sessions[s].loaded - 1 < 0 THEN 0 ELSE sessions[s].loaded - 1]
    /\ sessions' = [sessions EXCEPT ![s] = Answered(@, 200, "Entry deleted successfully")]
    /\ UNCHANGED <<hvars, entries, svars, docs, inflight, dispatched, lresp, cvars, rvars,
                   qvars, kvars>>

NextRequests ==
    \/ \E s \in Slots : Auth(s)
    \/ \E s \in Slots : PostSave(s)
    \/ \E s \in Slots : PostStats(s)
    \/ \E s \in Slots : DeleteFind(s)
    \/ \E s \in Slots : DeleteOne(s)
    \/ \E s \in Slots : DeleteStats(s)

\* the embedding calls that the creations start stay pending
SpecRequests == InitLifecycle /\ [][NextRequests]_vars

\* ------------------------------------------------------------------------
\* EmbeddingService.chunkText
\* ------------------------------------------------------------------------
\* the characters of a text: a letter, the two break characters
Chars == {"a", ".", "\n"}
Texts == UNION {[1..n -> Chars] : n \in 0..MaxText}

Max(a, b) == IF a >= b THEN a ELSE b

\* String.prototype.substring(from, to): indices are clamped to 0..length and
\* swapped when from > to; s is indexed from 1
substring(s, from, to) ==
    LET a == Max(0, Min(from, Len(s)))
        b == Max(0, Min(to, Len(s)))
    IN SubSeq(s, Min(a, b) + 1, Max(a, b))

\* String.prototype.lastIndexOf(c): -1 when c does not occur
lastIndexOf(s, c) ==
    LET at == {i \in 1..Len(s) : s[i] = c}
    IN IF at = {} THEN -1 ELSE (CHOOSE i \in at : \A j \in at : j <= i) - 1

RECURSIVE trimStart(_)
trimStart(s) == IF s # <<>> /\ s[1] = "\n" THEN trimStart(Tail(s)) ELSE s
RECURSIVE trimEnd(_)
trimEnd(s) ==
    IF s # <<>> /\ s[Len(s)] = "\n" THEN trimEnd(SubSeq(s, 1, Len(s) - 1)) ELSE s
\* String.prototype.trim()
trim(s) == trimEnd(trimStart(s))

\* chunkText(text, maxLength, overlap) is called: chunks = [], start = 0
ChunkCall ==
    /\ chunkPc = "idle"
    /\ \E text \in Texts, maxLength \in 1..MaxChunkLength :
         \E overlap \in 0..(maxLength - 1) :
            chunkArgs' = [text |-> text, maxLength |-> maxLength, overlap |-> overlap]
    /\ chunkPc' = "loop"
    /\ start' = 0
    /\ chunks' = <<>>
    /\ UNCHANGED <<hvars, entries, svars, lvars, cvars, rvars, qvars, avars>>

\* return chunks.filter(chunk => chunk.length > 0)
chunkReturn(pushed) == SelectSeq(pushed, LAMBDA chunk : Len(chunk) > 0)

\* one iteration of while (start < text.length); the last one breaks and returns
ChunkStep ==
    /\ chunkPc = "loop"
    /\ start < Len(chunkArgs.text)
    /\ Len(chunks) < MaxChunks
    /\ LET text == chunkArgs.text
           end == Min(start + chunkArgs.maxLength, Len(text))
           chunk == substring(text, start, end)
           breakPoint == Max(lastIndexOf(chunk, "."), lastIndexOf(chunk, "\n"))
       IN IF end < Len(text)
          THEN IF 2 * breakPoint > 2 * start + chunkArgs.maxLength
               THEN /\ chunks' = Append(chunks, trim(substring(text, start, breakPoint + 1)))
                    /\ start' = breakPoint + 1 - chunkArgs.overlap
                    /\ chunkPc' = "loop"
               ELSE /\ chunks' = Append(chunks, trim(chunk))
                    /\ start' = end - chunkArgs.overlap
                    /\ chunkPc' = "loop"
          ELSE /\ chunks' = chunkReturn(Append(chunks, trim(chunk)))
               /\ chunkPc' = "done"
               /\ UNCHANGED start
    /\ UNCHANGED <<chunkArgs, hvars, entries, svars, lvars, cvars, rvars, qvars, avars>>

\* the loop ends without an iteration: the text is empty
ChunkReturn ==
    /\ chunkPc = "loop"
    /\ start >= Len(chunkArgs.text)
    /\ chunks' = chunkReturn(chunks)
    /\ chunkPc' = "done"
    /\ UNCHANGED <<chunkArgs, start, hvars, entries, svars, lvars, cvars, rvars, qvars, avars>>

NextChunk == ChunkCall \/ ChunkStep \/ ChunkReturn

SpecChunk == InitLifecycle /\ [][NextChunk]_vars

\* ------------------------------------------------------------------------
\* Properties of the hybrid search (checked under SpecRank)
\* ------------------------------------------------------------------------
\* the two lists hybridSearch combined in this state
RankedText == textSearch(textMatches, hopts.limit * 2)
RankedVector == vectorSearch(simHits, hopts.limit * 2)

\* hybridSearch ran to its end in this state
HybridRan == hpc = "done" /\ hopts.called /\ ~providerFailed

\* C2: the merge is a full outer join keyed by id: the combined results hold
\* every id of either list exactly once; an id of the text list alone has
\* similarity 0, an id of the vector list alone has textScore 0, and an id of
\* both lists keeps the text score and the similarity of its two hits.
C2_FullOuterJoin ==
    HybridRan =>
        /\ SeqIds(combinedResults) = SeqIds(RankedText) \cup SeqIds(RankedVector)
        /\ \A i, j \in 1..Len(combinedResults) :
               combinedResults[i].id = combinedResults[j].id => i = j
        /\ \A i \in 1..Len(combinedResults) :
               LET r == combinedResults[i]
               IN /\ r.textScore = IF r.id \in SeqIds(RankedText)
                                   THEN RankedText[IndexOfId(RankedText, r.id)].textScore
                                   ELSE 0
                  /\ r.similarity = IF r.id \in SeqIds(RankedVector)
                                    THEN RankedVector[IndexOfId(RankedVector, r.id)].similarity
                                    ELSE 0

\* C2 witness: a merge with an id of the text list alone, one of the vector
\* list alone and one of both
C2_Witness ==
    /\ HybridRan
    /\ SeqIds(RankedText) \ SeqIds(RankedVector) # {}
    /\ SeqIds(RankedVector) \ SeqIds(RankedText) # {}
    /\ SeqIds(RankedText) \cap SeqIds(RankedVector) # {}
    /\ Len(combinedResults) = 3

\* C3: every combined result, and every result returned, has
\* combinedScore = textScore * textWeight + similarity * vectorWeight, the text
\* score being the store's score as it came (no rescaling).
C3_CombinedScore ==
    HybridRan =>
        /\ \A i \in 1..Len(combinedResults) :
               LET r == combinedResults[i]
               IN /\ r.combinedScore = r.textScore * hopts.textWeight
                                       + r.similarity * hopts.vectorWeight
                  /\ r.id \in SeqIds(RankedText) =>
                         r.textScore = RankedText[IndexOfId(RankedText, r.id)].textScore
        /\ \A i \in 1..Len(hresp.results) :
               hresp.results[i].combinedScore =
                   hresp.results[i].textScore * hopts.textWeight
                   + hresp.results[i].similarity * hopts.vectorWeight

\* C3 witness: text score 0.3 and similarity 0.9 under weights 0.3 / 0.7 give 0.72
C3_Witness ==
    /\ HybridRan
    /\ hopts.textWeight = 3000 /\ hopts.vectorWeight = 7000
    /\ \E i \in 1..Len(hresp.results) :
           /\ hresp.results[i].textScore = 30
           /\ hresp.results[i].similarity = 90
           /\ hresp.results[i].combinedScore = 720000

\* the weights a request to POST /hybrid asks for, as numbers
AskedTextWeight == parseFloat(bodyTextWeight(hbody)).v
AskedVectorWeight == parseFloat(bodyVectorWeight(hbody)).v
AskedSumOff ==
    IF AskedTextWeight + AskedVectorWeight >= Unit
    THEN AskedTextWeight + AskedVectorWeight - Unit
    ELSE Unit - (AskedTextWeight + AskedVectorWeight)

\* C4 (as claimed): a request whose weights are off 1 by more than 0.001 is
\* answered INVALID_WEIGHTS with no results, and a request whose weights lie in
\* [0, 1] and sum to 1 within 0.001 is not.
C4_WeightsValidated ==
    (hpc = "done" /\ hcaller = "route" /\ bodyValid(hbody)) =>
        /\ AskedSumOff > 10 =>
               hresp.code = "INVALID_WEIGHTS" /\ hresp.results = <<>> /\ ~hopts.called
        /\ AskedSumOff <= 10 => hresp.code # "INVALID_WEIGHTS"

\* C5: no result of hybridSearch is below the threshold, and the filter comes
\* before the cut to limit: a combined result at or above the threshold is
\* left out only when limit results at least as good are returned.
C5_ThresholdBeforeLimit ==
    HybridRan =>
        /\ \A i \in 1..Len(hresp.results) :
               hresp.results[i].combinedScore >= hopts.threshold * Unit
        /\ \A i \in 1..Len(combinedResults) :
               (/\ combinedResults[i].combinedScore >= hopts.threshold * Unit
                /\ combinedResults[i].id \notin SeqIds(hresp.results))
               => /\ Len(hresp.results) = hopts.limit
                  /\ \A j \in 1..Len(hresp.results) :
                         hresp.results[j].combinedScore >= combinedResults[i].combinedScore
        /\ SeqIds(hresp.results) \subseteq SeqIds(combinedResults)

\* C5 witness: a combined result below the threshold is dropped although
\* fewer than limit results are returned, and it stood before one that is kept
C5_Witness ==
    /\ HybridRan
    /\ Len(hresp.results) < hopts.limit
    /\ hresp.results # <<>>
    /\ \E i, j \in 1..Len(combinedResults) :
           /\ i < j
           /\ combinedResults[i].combinedScore < hopts.threshold * Unit
           /\ combinedResults[j].id \in SeqIds(hresp.results)

MergedPosition(id) ==
    IF id \in SeqIds(RankedText) THEN IndexOfId(RankedText, id)
    ELSE Len(RankedText) + IndexOfId(RankedVector, id)

ScenarioRan ==
    /\ HybridRan
    /\ textMatches = <<[id |-> "E1", textScore |-> 80], [id |-> "E2", textScore |-> 30]>>
    /\ simHits = <<[id |-> "E2", similarity |-> 90], [id |-> "E3", similarity |-> 60]>>
    /\ hopts = [called |-> TRUE, limit |-> 10, textWeight |-> 3000, vectorWeight |-> 7000,
                threshold |-> 20]

\* C7: text hits [E1 0.8, E2 0.3], vector hits [E2 0.9, E3 0.6], weights
\* 0.3 / 0.7, threshold 0.2, limit 10 return E2, E3, E1 in that order with
\* combined scores 0.72, 0.42 and 0.24.
C7_Scenario ==
    ScenarioRan =>
        /\ Len(hresp.results) = 3
        /\ hresp.results[1].id = "E2" /\ hresp.results[1].combinedScore = 720000
        /\ hresp.results[2].id = "E3" /\ hresp.results[2].combinedScore = 420000
        /\ hresp.results[3].id = "E1" /\ hresp.results[3].combinedScore = 240000

\* C7 witness: the scenario ran and was answered
C7_Witness == ScenarioRan /\ hresp.status = 200 /\ hresp.searchType = "hybrid"

\* ------------------------------------------------------------------------
\* Properties of the similarity search (checked under SpecSimilar, SpecVectors)
\* ------------------------------------------------------------------------
\* findSimilarVectors was handed a reference vector and candidates in this state
SimilarRan == spc = "done" /\ sreq.queryVector.kind = "array"

\* a candidate with a vector of the reference's dimension
ValidCandidate(c) ==
    c.vector.kind = "array" /\ Len(c.vector.v) = Len(sreq.queryVector.v)

ValidCandidates == SelectSeq(sreq.candidates, ValidCandidate)

\* C8 (as claimed): a candidate whose vector is missing or of another
\* dimension than the reference is skipped: the call does not fail, the result
\* is the ranking of the valid candidates alone, and it is the empty list when
\* no candidate is valid.
C8_InvalidCandidatesSkipped ==
    SimilarRan =>
        /\ sresp.status = 200
        /\ sresp.results = rankSimilarities(mapSimilarities(sreq.queryVector, ValidCandidates),
                                            sreq.limit, sreq.threshold)

\* the similarity of candidate id to the reference of this state
SimilarityOf(id) ==
    calculateCosineSimilarity(sreq.queryVector,
                              sreq.candidates[IndexOfId(sreq.candidates, id)].vector).sim

\* C9: the output of findSimilarVectors is sorted by similarity descending,
\* holds only candidates at or above the threshold, each with its cosine
\* similarity, has at most limit items, and a candidate at or above the
\* threshold is left out only when limit items at least as similar are kept.
C9_SimilarSortedFilteredCut ==
    (SimilarRan /\ sresp.status = 200) =>
        /\ Len(sresp.results) <= sreq.limit
        /\ \A i \in 1..Len(sresp.results) :
               /\ sresp.results[i].id \in SeqIds(sreq.candidates)
               /\ sresp.results[i].similarity = SimilarityOf(sresp.results[i].id)
               /\ SimAtLeast(sresp.results[i].similarity, sreq.threshold)
        /\ \A i, j \in 1..Len(sresp.results) :
               i < j => /\ SimGeq(sresp.results[i].similarity, sresp.results[j].similarity)
                        /\ sresp.results[i].id # sresp.results[j].id
        /\ \A k \in 1..Len(sreq.candidates) :
               (/\ SimAtLeast(SimilarityOf(sreq.candidates[k].id), sreq.threshold)
                /\ sreq.candidates[k].id \notin SeqIds(sresp.results))
               => /\ Len(sresp.results) = sreq.limit
                  /\ \A i \in 1..Len(sresp.results) :
                         SimGeq(sresp.results[i].similarity,
                                SimilarityOf(sreq.candidates[k].id))

\* C9 witness: three candidates in ascending order of similarity, one below
\* the threshold, and the limit cuts the other two down to the best
C9_Witness ==
    /\ SimilarRan /\ sresp.status = 200
    /\ Len(sreq.candidates) = 3
    /\ sreq.limit = 1
    /\ ~SimAtLeast(SimilarityOf("E1"), sreq.threshold)
    /\ SimAtLeast(SimilarityOf("E2"), sreq.threshold)
    /\ ~SimGeq(SimilarityOf("E2"), SimilarityOf("E3"))
    /\ SeqIds(sresp.results) = {"E3"}

\* the reference id resolves to a vector: the user's own entry, with a
\* generated (non-empty) embedding
ReferenceHasVector ==
    /\ sreq.entryId \in Ids
    /\ entries[sreq.entryId].userId = sreq.userId
    /\ entries[sreq.entryId].vector.kind = "array"
    /\ entries[sreq.entryId].vector.v # <<>>

\* C10 (as claimed): a find-similar request whose reference id resolves to no
\* vector is answered not found, and no candidate is scored.
C10_ReferenceNotFound ==
    (spc = "done" /\ sreq.caller = "route" /\ ~ReferenceHasVector) =>
        /\ sresp.code = "ENTRY_NOT_FOUND"
        /\ sscored = <<>>

\* ------------------------------------------------------------------------
\* Properties of embedding generation (checked under SpecLifecycle)
\* ------------------------------------------------------------------------
\* C1 (as stated): under any interleaving of entry creation, entry edit and
\* batch regeneration, at most one embedding computation is in flight per
\* content checksum: no two provider calls for the same text are in flight
\* at once.  The same text has the same checksum under any digest.
C1_OneInFlightPerChecksum ==
    \A i, j \in 1..Len(inflight) : i # j => inflight[i].text # inflight[j].text

\* ------------------------------------------------------------------------
\* Properties of calculateCosineSimilarity (checked under SpecCosine)
\* ------------------------------------------------------------------------
CosineRan == cosPc = "done" /\ cosOut.called

IsZeroVector(v) == \A i \in 1..Len(v) : v[i] = 0

\* C11: for two vectors of different length calculateCosineSimilarity fails
\* with the dimension error and returns no number.
C11_DimensionMismatch ==
    (CosineRan /\ Len(cosA) # Len(cosB)) => cosOut.err = "dimension"

C11_Witness ==
    /\ CosineRan
    /\ Len(cosA) = 1
    /\ Len(cosB) = 2
    /\ cosOut.err = "dimension"

\* C12: for two vectors of equal length of which one has zero magnitude
\* calculateCosineSimilarity returns 0 and does not throw.
C12_ZeroMagnitude ==
    (CosineRan /\ Len(cosA) = Len(cosB) /\ (IsZeroVector(cosA) \/ IsZeroVector(cosB)))
        => (cosOut.err = "none" /\ cosOut.sim = ZeroSim)

C12_Witness ==
    /\ CosineRan
    /\ cosA = <<0, 0>>
    /\ cosB = <<1, 3>>
    /\ cosOut.err = "none"
    /\ cosOut.sim = ZeroSim

\* the double 1
DoubleOne == [sign |-> 1, m |-> BigPow2(MantissaBits - 1), e |-> 1 - MantissaBits]

\* |v| <= 1 for a double v
DoubleWithinOne(v) ==
    \/ v.sign = 0
    \/ v.e < 1 - MantissaBits
    \/ (v.e = 1 - MantissaBits /\ v.m = DoubleOne.m)

\* |v - 1| <= 2^-30 for a double v; 2^-30 is less than 1e-9
DoubleNearOne(v) ==
    /\ v.sign = 1
    /\ \/ /\ v.e = 1 - MantissaBits
          /\ BigCmp(BigSub(v.m, BigPow2(MantissaBits - 1)), BigPow2(MantissaBits - 31)) <= 0
       \/ /\ v.e = -MantissaBits
          /\ BigCmp(BigSub(BigPow2(MantissaBits), v.m), BigPow2(MantissaBits - 30)) <= 0

CosineReturned == CosineRan /\ Len(cosA) = Len(cosB) /\ cosOut.err = "none"

\* C13 (as stated): for vectors of equal length the number returned lies in
\* [-1, 1]; it is 1 for identical non-zero vectors and 0 for orthogonal
\* vectors.
C13_CosineBounds ==
    CosineReturned =>
        /\ DoubleWithinOne(cosOut.value)
        /\ (cosA = cosB /\ ~IsZeroVector(cosA)) => cosOut.value = DoubleOne
        /\ Dot(cosA, cosB) = 0 => cosOut.value = DoubleZero

\* C13 (what the arithmetic does guarantee): for vectors of equal length
\* dot(a,b)^2 <= |a|^2 * |b|^2, and the number returned is that quotient
\* rounded three times: it lies in [-1, 1] or within 1e-9 of it, is within
\* 1e-9 of 1 (not always 1) for identical non-zero vectors, and is 0 for
\* orthogonal vectors.
C13_CosineBoundsRounded ==
    CosineReturned =>
        /\ cosOut.sim.num * cosOut.sim.num <= cosOut.sim.den2
        /\ \/ DoubleWithinOne(cosOut.value)
           \/ DoubleNearOne([cosOut.value EXCEPT !.sign = 1])
        /\ (cosA = cosB /\ ~IsZeroVector(cosA)) => DoubleNearOne(cosOut.value)
        /\ Dot(cosA, cosB) = 0 => cosOut.value = DoubleZero

C13_Witness ==
    /\ CosineReturned
    /\ cosA = <<3, 3>>
    /\ cosB = <<3, 3>>
    /\ ~DoubleWithinOne(cosOut.value)
    /\ DoubleNearOne(cosOut.value)

FallbackAnswered ==
    hpc = "done" /\ hcaller = "route" /\ providerFailed /\ hresp.searchType = "text_fallback"

\* C15: when the embedding provider fails, the response of POST /hybrid is the
\* ranking of the same lexical hits with an empty vector list under the same
\* weights, threshold and limit.
C15_FallbackEqualsRanking ==
    FallbackAnswered => hresp.results = hybridSearch(textMatches, <<>>, hopts)

EmbeddingState(doc) ==
    IF doc.dimension = 0 THEN "Missing"
    ELSE IF doc.embeddingOf = doc.raw THEN "Fresh" ELSE "Stale"

\* C17: the entries POST /embeddings/generate selects for a user, when neither
\* regenerateAll nor entryIds is given, are the user's Missing and Stale
\* entries, and no Fresh one.
C17_SelectsMissingAndStale ==
    \A userId \in Users :
        LET found == DocsWithoutVector(userId)
        IN {found[i].id : i \in 1..Len(found)}
               = {id \in EntryIds : /\ docs[id].userId = userId
                                    /\ EmbeddingState(docs[id]) # "Fresh"}

Pending(text) == \E i \in 1..Len(inflight) : inflight[i].text = text

C19_ChecksumOfText ==
    \A i \in EntryIds, j \in EntryIds :
        (/\ docs[i].dimension # 0
         /\ docs[i].dimension = docs[j].dimension
         /\ docs[i].embeddingOf = docs[j].embeddingOf)
            => docs[i].checksum = docs[j].checksum

\* the combined results at or above the threshold, sorted
RankedAll == SortCombinedDesc(FilterCombined(combinedResults, hopts.threshold))

\* C20: for limit >= 1 hybridSearch returns at most limit results, and they
\* are the first limit elements of the filtered, sorted combined list: the
\* cut removes only the lowest ranked.
C20_LimitPrefix ==
    (HybridRan /\ hopts.limit >= 1) =>
        /\ Len(hresp.results) <= hopts.limit
        /\ Len(hresp.results) = Min(hopts.limit, Len(RankedAll))
        /\ \A i \in 1..Len(hresp.results) : hresp.results[i] = RankedAll[i]

C20_Witness ==
    /\ HybridRan
    /\ hopts.limit = 2
    /\ Len(RankedAll) = 3
    /\ Len(hresp.results) = 2
    /\ RankedAll[3].combinedScore < RankedAll[2].combinedScore

\* ------------------------------------------------------------------------
\* Properties of findSimilarEntries (checked under SpecSimilar)
\* ------------------------------------------------------------------------
\* C21: the reference entry never appears in its own find-similar results:
\* the candidates handed to findSimilarVectors, the candidates scored and the
\* results answered all leave out the reference's own id, for every user and
\* every collection.
C21_ReferenceExcluded ==
    (spc = "done" /\ sreq.caller = "route") =>
        /\ sreq.entryId \notin SeqIds(sreq.candidates)
        /\ sreq.entryId \notin {sscored[i] : i \in 1..Len(sscored)}
        /\ sreq.entryId \notin SeqIds(sresp.results)

\* C21 witness: the reference has a vector, the user owns other entries with
\* vectors, and the request is answered with a non-empty ranking
C21_Witness ==
    /\ spc = "done" /\ sreq.caller = "route"
    /\ ReferenceHasVector
    /\ sresp.status = 200
    /\ Len(sreq.candidates) = 2
    /\ sresp.results # <<>>

\* ------------------------------------------------------------------------
\* Properties of a failed generation (checked under SpecLifecycle)
\* ------------------------------------------------------------------------
\* the pending generateEntryEmbeddings calls for entry id
CallsFor(calls, id) == Cardinality({i \in 1..Len(calls) : calls[i].id = id})

\* C22: a failed embedding computation leaves every entry as it was on
\* record before the request (the vector, its text and its checksum are
\* unchanged: Missing stays Missing, Stale stays Stale) and is not retried:
\* the failed call is over, no provider call is dispatched by the failure and
\* the entry has one pending call fewer.
C22_FailureRestores ==
    [][GenerateFails =>
          /\ docs' = docs
          /\ dispatched' = dispatched
          /\ \E i \in 1..Len(inflight) :
                 /\ CallSettled(i)
                 /\ CallsFor(inflight', inflight[i].id) = CallsFor(inflight, inflight[i].id) - 1]_vars

\* C22 witness: the only call dispatched, for a created entry, has failed:
\* the entry is still Missing and no call is pending
C22_Witness ==
    /\ dispatched = 1
    /\ inflight = <<>>
    /\ \E id \in EntryIds : /\ docs[id].raw \in Contents
                            /\ EmbeddingState(docs[id]) = "Missing"

\* ------------------------------------------------------------------------
\* Properties of the combined results (checked under SpecRank)
\* ------------------------------------------------------------------------
\* the kind of match of id, from its membership in the two lists combined
MatchKindOf(id) ==
    IF id \in SeqIds(RankedText) /\ id \in SeqIds(RankedVector) THEN "both"
    ELSE IF id \in SeqIds(RankedText) THEN "lexical-only"
    ELSE "vector-only"

\* C23: every result of the hybrid ranking carries a matchKind derived from
\* membership in the two input lists: "both" exactly when the id occurs in the
\* lexical and in the vector list, "lexical-only" when only in the lexical
\* list, "vector-only" when only in the vector list.
C23_MatchKind ==
    HybridRan =>
        \A i \in 1..Len(hresp.results) :
            /\ "matchKind" \in DOMAIN hresp.results[i]
            /\ hresp.results[i].matchKind = MatchKindOf(hresp.results[i].id)

VectorSearchOfRequest ==
    vectorSearchQuery(QueryText(qreq.query), ObjectId(qreq.userId), qreq.limit,
                      qreq.threshold, qreq.provider)

\* C25: when the embedding provider succeeds and the user has entries with
\* embeddings, POST /search/vector answers through the vector path: the query
\* text is embedded, the requester's id is the scope, the response has
\* searchType 'vector' and the results ranked by similarity; the text
\* fallback is taken only when that vector search fails.
C25_VectorPath ==
    (qpc = "done" /\ qreq.op = "vector") =>
        /\ VectorSearchOfRequest.searchType = "vector" =>
               /\ qresp.searchType = "vector"
               /\ qresp.results = VectorSearchOfRequest.results
        /\ qresp.searchType = "text_fallback" => VectorSearchOfRequest.err # "none"

\* the documents a finished find-similar request ranked against or returned
SimilarTouched ==
    SeqIds(sreq.candidates) \cup {sscored[i] : i \in 1..Len(sscored)}
        \cup SeqIds(sresp.results)
        \cup (IF sreq.queryVector = NoField THEN {} ELSE {sreq.entryId})

\* C26: user isolation: for every search operation (text, vector, hybrid and
\* their fallbacks, find-similar) and every entry operation (get, update,
\* delete, stats), every entry read, ranked against, returned or changed has
\* userId equal to the requester's id.
C26_UserIsolation ==
    /\ [](qpc = "done" =>
              /\ \A t \in qresp.read \cup qresp.written : t.userId = qreq.userId
              /\ \A i \in 1..Len(qresp.results) :
                     \E t \in qresp.read : t.id = qresp.results[i].id)
    /\ []((spc = "done" /\ sreq.caller = "route") =>
              \A id \in SimilarTouched : entries[id].userId = sreq.userId)
    /\ [][\A id \in Ids : entries'[id] # entries[id] =>
                              /\ entries[id].userId = qreq'.userId
                              /\ id = qreq'.entryId]_vars

\* C26 witness: u1 searched by vector with the text of u2's id while u2 owns
\* E3, embedded and matching the words; u1 got results
C26_Witness ==
    /\ qpc = "done"
    /\ qreq.op = "vector"
    /\ qreq.userId = "u1"
    /\ qreq.query = "u2"
    /\ entries["E3"].userId = "u2"
    /\ entries["E3"].vector.kind = "array"
    /\ "E3" \in qreq.matching
    /\ qresp.results # <<>>

\* ------------------------------------------------------------------------
\* Properties of requests in progress at once (checked under SpecRequests)
\* ------------------------------------------------------------------------
\* the entries that userId owns
EntriesOwned(userId) == Cardinality({id \in EntryIds : docs[id].userId = userId})

\* C27: after any interleaving of completed entry creations and deletions,
\* including concurrent requests that each loaded the user record before the
\* other saved it, user.stats.totalEntries equals the number of entries the
\* user owns and is never negative.
C27_TotalEntriesExact ==
    /\ \A u \in Users : totalEntries[u] >= 0
    /\ (\A s \in Slots : sessions[s].pc \in {"free", "done"}) =>
           \A u \in Users : totalEntries[u] = EntriesOwned(u)

\* the request of a session carries a Bearer token that verifies and
\* resolves to an existing, active user
Authenticated(session) == session.token \in Users /\ session.found = "active"

\* a handler of the entries routes has run for the session
HandlerRan(session) ==
    \/ session.pc \in {"handler", "found", "stats"}
    \/ session.pc = "done" /\ session.status \in {200, 201, 404}

\* C29: no handler of a protected route runs unless the request carries a
\* Bearer token that verifies and resolves to an existing, active user; every
\* other request is answered 401 and changes no state.
C29_AuthRequired ==
    /\ [](\A s \in Slots : HandlerRan(sessions[s]) => Authenticated(sessions[s]))
    /\ [](\A s \in Slots :
              (sessions[s].pc = "done" /\ ~Authenticated(sessions[s])) =>
                  sessions[s].status = 401)
    /\ [][\A s \in Slots :
              (sessions[s].pc = "free" /\ sessions'[s].pc = "done") =>
                  UNCHANGED <<docs, inflight, dispatched, totalEntries, entries>>]_vars

\* the part of C29 that the middleware keeps: a handler runs only for an
\* authenticated request, and a request that auth answers changes no state
AuthGuardsHandlers ==
    /\ [](\A s \in Slots : HandlerRan(sessions[s]) => Authenticated(sessions[s]))
    /\ [][\A s \in Slots :
              (sessions[s].pc = "free" /\ sessions'[s].pc = "done") =>
                  UNCHANGED <<docs, inflight, dispatched, totalEntries, entries>>]_vars

\* ------------------------------------------------------------------------
\* Properties of the batch report (checked under SpecLifecycle)
\* ------------------------------------------------------------------------
\* this step is the failure of the last generation of a batch, for an entry
\* without an embedding: nothing is stored and the route reports
LastOfBatchFails(i) ==
    /\ inflight[i].origin = "batch"
    /\ inflight[i].rest = <<>>
    /\ docs[inflight[i].id].dimension = 0
    /\ docs' = docs
    /\ inflight' = RemoveAt(inflight, i)

\* C28: the report of a batch embedding generation is accurate:
\* successful + failed = totalEntries, and successful counts the entries
\* whose embedding was generated and persisted in this run; an entry whose
\* generation or save failed is counted as failed.
C28_ReportAccurate ==
    [][\A i \in 1..Len(inflight) :
           LastOfBatchFails(i) =>
               /\ lresp'.successful + lresp'.failed = lresp'.totalEntries
               /\ lresp'.totalEntries = inflight[i].total
               /\ lresp'.failed >= 1]_vars

\* ------------------------------------------------------------------------
\* Properties of chunkText (checked under SpecChunk)
\* ------------------------------------------------------------------------
\* every chunk pushed so far is at most maxLength characters long
ChunksWithinMaxLength ==
    \A i \in 1..Len(chunks) : Len(chunks[i]) <= chunkArgs.maxLength

\* C30: chunkText terminates for every text whenever 0 <= overlap < maxLength:
\* the start index strictly increases on every loop iteration that does not
\* return, and every produced chunk has length at most maxLength.
C30_ChunkProgress ==
    /\ [][(chunkPc = "loop" /\ chunkPc' = "loop") => start' > start]_vars
    /\ []ChunksWithinMaxLength

====
